---- MODULE Spec2Model ----
(***************************************************************************)
(* A model of the repair driver of gsrb (src/src/gsrb/repair/repair.py),   *)
(* of the command line entry that drives it (src/src/gsrb/cli/repair.py)   *)
(* and of the event and app helpers it calls.  The device is the           *)
(* environment: what a perform, a capture or a layout match yields is      *)
(* drawn from small sets.                                                  *)
(***************************************************************************)
EXTENDS Integers, Sequences, FiniteSets, TLC

\* ------------------------------------------------------------------ bounds

\* most recorded steps of a record (generated assertions not counted)
MaxLen == 2
\* most candidates __candidates returns for one screen
MaxCand == 2
\* number of distinct screens the device can show
NumScreens == 2
\* number of distinct live widgets a matched locator can be rewritten to
NumTargets == 1

\* ------------------------------------------------------------ data model

\* Event.locator defaults to None
None == 0

\* Action members that are assertions
AssertionActions == {"EXIST", "NOT_EXIST", "EQUAL", "NOT_EQUAL"}

\* Action members performed without a ui object
NoLocatorActions == {"BACK", "SWIPE"}

\* Ui(x, p): kind "empty" is Ui(), "rec" a recorded snapshot, "live" a capture
Ui(kind, id) == [kind |-> kind, id |-> id]

EmptyUi == Ui("empty", 0)

\* Event(action, locator, parameter); parameter is the set of its flag keys
Event(action, locator, parameter) ==
    [action |-> action, locator |-> locator, parameter |-> parameter]

\* Step(event, ui_before, ui_after)
Step(event, ui_before, ui_after) ==
    [event |-> event, ui_before |-> ui_before, ui_after |-> ui_after]

is_assertion(ev) == ev.action \in AssertionActions

is_generated_assertion(ev) == is_assertion(ev) /\ "generated" \in ev.parameter

\* Event.with_parameter: a copy whose parameter also holds the given keys
with_parameter(ev, param) == Event(ev.action, ev.locator, ev.parameter \cup param)

\* dataclasses.replace(step.event, locator=locator)
replace_locator(ev, locator) == Event(ev.action, locator, ev.parameter)

\* The widgets a snapshot holds: the recorded snapshot 1 holds widget 1, the
\* recorded snapshot 2 holds none (the record is inconsistent with its locator)
WidgetsOf(ui) == IF ui.kind = "rec" /\ ui.id = 1 THEN {1} ELSE {}

\* Locator.find_in_layout: the node the locator resolves to, or None
find_in_layout(locator, ui) == IF locator \in WidgetsOf(ui) THEN locator ELSE None

\* tree_equal on two captures of the device: canonical equality of the trees
tree_equal(before, after) == before = after

\* The layout captured from the device showing screen s
Capture(s) == Ui("live", s)

Screens == 0 .. (NumScreens - 1)

\* ---------------------------------------------------------- recorded input

\* The live widget a locator built by Locator.from_node names; the recorded
\* widget is 1
LiveWidget(k) == 10 + k

\* The steps a record can hold: a click whose locator resolves in its
\* ui_before, a click whose locator does not, a swipe, an assertion
RecordedSteps ==
    { Step(Event("CLICK", 1, {}), Ui("rec", 1), Ui("rec", 1)),
      Step(Event("CLICK", 1, {}), Ui("rec", 2), Ui("rec", 2)),
      Step(Event("SWIPE", None, {}), Ui("rec", 1), Ui("rec", 1)),
      Step(Event("EXIST", 1, {}), Ui("rec", 1), Ui("rec", 1)) }

\* The assertion the post-processor inserts behind a step: it carries no ui
GeneratedStep == Step(Event("EXIST", 1, {"generated"}), EmptyUi, EmptyUi)

RECURSIVE Interleave(_, _)
\* load_testcase on record_with_assertion.txt: the recorded steps in order,
\* each followed by its generated assertion when gen says it has one
Interleave(steps, gen) ==
    IF steps = <<>> THEN <<>>
    ELSE (IF Head(gen) THEN <<Head(steps), GeneratedStep>> ELSE <<Head(steps)>>)
         \o Interleave(Tail(steps), Tail(gen))

\* The testcases the command line can load
Testcases ==
    { Interleave(sg[1], sg[2]) :
        sg \in UNION { [1 .. k -> RecordedSteps] \X [1 .. k -> BOOLEAN]
                       : k \in 1 .. MaxLen } }

RECURSIVE SelectSeqNot(_, _)
\* [step for step in testcase if not drop(step)], drop given as a set of steps
SelectSeqNot(s, dropped) ==
    IF s = <<>> THEN <<>>
    ELSE IF Head(s) \in dropped THEN SelectSeqNot(Tail(s), dropped)
    ELSE <<Head(s)>> \o SelectSeqNot(Tail(s), dropped)

Range(s) == { s[i] : i \in DOMAIN s }

\* ------------------------------------------------------------ construction

\* [step for step in testcase if not step.event.is_assertion()] when
\* remove_assertion is set (repair.py line 79)
strip_assertions(tc, remove_assertion) ==
    IF remove_assertion
    THEN SelectSeqNot(tc, { s \in Range(tc) : is_assertion(s.event) })
    ELSE tc

\* self.testcase: the steps that are not generated assertions
init_testcase(tc) ==
    SelectSeqNot(tc, { s \in Range(tc) : is_generated_assertion(s.event) })

\* dict item assignment d[k] = v
DictSet(d, k, v) == [x \in (DOMAIN d) \cup {k} |-> IF x = k THEN v ELSE d[x]]

RECURSIVE GenLoop(_, _, _)
\* for i in range(len(testcase) - 1): if testcase[i + 1] is a generated
\* assertion, generated_assertion[testcase[i]] = testcase[i + 1]
GenLoop(tc, i, d) ==
    IF i > Len(tc) - 1 THEN d
    ELSE GenLoop(tc, i + 1,
                 IF is_generated_assertion(tc[i + 1].event)
                 THEN DictSet(d, tc[i], tc[i + 1])
                 ELSE d)

init_generated_assertion(tc) == GenLoop(tc, 1, <<>>)

\* ------------------------------------------------------------ device calls

PerformOutcomes == {"ok", "fail", "raise"}

\* What the environment answers to one call: the live node match_layout maps
\* the recorded widget to (0: it is not among the keys of result.matched), how
\* the perform ends ("fail": AssertionError, ValueError or UiObjectNotFoundError;
\* "raise": any other exception) and the screen shown after a perform that acts
Outcomes ==
    [target : {0} \cup { LiveWidget(k) : k \in 1 .. NumTargets },
     perf : PerformOutcomes, next : Screens]

\* Event.perform with Action.perform: [ret, screen].  An action that does not
\* fit the presence of a locator raises ValueError, which perform turns into
\* False; an assertion reads the device and leaves the screen as it is.
perform(ev, scr, o) ==
    IF (ev.locator = None) # (ev.action \in NoLocatorActions)
    THEN [ret |-> "False", screen |-> scr]
    ELSE IF o.perf = "raise" THEN [ret |-> "Raise", screen |-> scr]
    ELSE IF o.perf = "fail" THEN [ret |-> "False", screen |-> scr]
    ELSE IF is_assertion(ev) THEN [ret |-> "True", screen |-> scr]
    ELSE [ret |-> "True", screen |-> o.next]

\* The screen the app shows when init_app has cleared and started it
StartScreen == 0

\* The device steps of init_app, in the order it issues them; the pretest
\* script runs only when the session has one
init_app(has_pretest) ==
    <<"app_stop", "app_clear", "grant_permission", "app_start">>
    \o (IF has_pretest THEN <<"pretest">> ELSE <<>>)
    \o <<"wait">>

\* ------------------------------------------------------- single-step calls

\* What a call leaves behind: how it ended ("True", "False", "Quit" for
\* __quit(False), "Raise" for an exception that escapes), the branch that
\* decided it, and result, current and the device screen after it
Out(ret, why, res, cur, scr) ==
    [ret |-> ret, why |-> why, result |-> res, current |-> cur, screen |-> scr]

\* assertion_failed with a slip: a failed assertion is fatal for the next
\* step as it is for the current one
assertion_failed_always_fatal(next_step, res, cur, scr) ==
    Out("Quit", "assertion_failed", res, cur, scr)

\* what __exec_assertion does when the assertion does not hold
assertion_failed(next_step, res, cur, scr) ==
    IF next_step
    THEN Out("False", "next_assertion_failed", res, cur, scr)
    ELSE Out("Quit", "assertion_failed", res, cur, scr)

\* exec_assertion with a slip: an assertion that holds moves current by 2,
\* as current step too
exec_assertion_skips_two(step, next_step, res, cur, scr, o) ==
    IF is_assertion(step.event)
    THEN LET p == perform(step.event, scr, o) IN
         IF p.ret = "Raise" THEN Out("Raise", "exception", res, cur, scr)
         ELSE IF p.ret = "True"
         THEN Out("True", "assertion_passed",
                  Append(res, Step(step.event, Capture(scr), Capture(scr))),
                  cur + 2, p.screen)
         ELSE assertion_failed(next_step, res, cur, scr)
    ELSE Out("False", "not_assertion", res, cur, scr)

\* Repair.__exec_assertion on step, as current (next_step FALSE) or next step
exec_assertion(step, next_step, res, cur, scr, o) ==
    IF is_assertion(step.event)
    THEN LET p == perform(step.event, scr, o) IN
         IF p.ret = "Raise" THEN Out("Raise", "exception", res, cur, scr)
         ELSE IF p.ret = "True"
         THEN Out("True", "assertion_passed",
                  Append(res, Step(step.event, Capture(scr), Capture(scr))),
                  cur + (IF next_step THEN 2 ELSE 1), p.screen)
         ELSE assertion_failed(next_step, res, cur, scr)
    ELSE Out("False", "not_assertion", res, cur, scr)

\* try with a slip: the step is appended to result before its perform is known
\* to have succeeded
try_appends_first(step, offset, res, cur, scr, o) ==
    LET p == perform(step.event, scr, o)
        appended == Append(res, Step(step.event, Capture(scr), Capture(p.screen)))
    IN
    IF p.ret = "Raise" THEN Out("Raise", "exception", res, cur, scr)
    ELSE IF p.ret = "True"
    THEN Out("True", "tried", appended, cur + offset, p.screen)
    ELSE Out("False", "try_failed", appended, cur, scr)

\* Repair.__try: perform a step that has no locator
try(step, offset, res, cur, scr, o) ==
    LET p == perform(step.event, scr, o) IN
    IF p.ret = "Raise" THEN Out("Raise", "exception", res, cur, scr)
    ELSE IF p.ret = "True"
    THEN Out("True", "tried",
             Append(res, Step(step.event, Capture(scr), Capture(p.screen))),
             cur + offset, p.screen)
    ELSE Out("False", "try_failed", res, cur, scr)

\* match_no_base with a slip: the step merely fails to match
match_no_base_returns(res, cur, scr) == Out("False", "no_base", res, cur, scr)

\* __match when the recorded locator resolves to no node of base_layout
match_no_base(res, cur, scr) == Out("Quit", "no_base", res, cur, scr)

\* match_perform_failed with a slip: the step merely fails to match
match_perform_failed_returns(res, cur, scr) ==
    Out("False", "perform_failed", res, cur, scr)

\* __match when the rewritten event's perform returns False
match_perform_failed(res, cur, scr) == Out("Quit", "perform_failed", res, cur, scr)

\* match_record with a slip: the step is recorded whether the UI changed or not
match_record_always(res, new_event, layout_before, layout_after) ==
    Append(res, Step(new_event, layout_before, layout_after))

\* __match after a perform that succeeded: the step is skipped when the tree
\* after it equals the tree before it, and appended to result otherwise
match_record(res, new_event, layout_before, layout_after) ==
    IF tree_equal(layout_before, layout_after) THEN res
    ELSE Append(res, Step(new_event, layout_before, layout_after))

\* Repair.__match
match(step, offset, res, cur, scr, o) ==
    IF is_assertion(step.event) THEN Out("False", "is_assertion", res, cur, scr)
    ELSE IF step.event.locator = None THEN try(step, offset, res, cur, scr, o)
    ELSE IF find_in_layout(step.event.locator, step.ui_before) = None
    THEN match_no_base(res, cur, scr)
    ELSE IF o.target # 0
    THEN LET new_event == replace_locator(step.event, o.target)
             p == perform(new_event, scr, o) IN
         IF p.ret = "Raise" THEN Out("Raise", "exception", res, cur, scr)
         ELSE IF p.ret = "True"
         THEN Out("True",
                  IF tree_equal(Capture(scr), Capture(p.screen))
                  THEN "skip" ELSE "matched",
                  match_record(res, new_event, Capture(scr), Capture(p.screen)),
                  cur + offset, p.screen)
         ELSE match_perform_failed(res, cur, scr)
    ELSE Out("False", "not_matched", res, cur, scr)

\* a or b, for calls that may also quit or raise: b runs only if a returned False
OrElse(a, b) == IF a.ret = "False" THEN b ELSE a

\* Repair.__match_current
match_current(tc, res, cur, scr, o) ==
    OrElse(exec_assertion(tc[cur + 1], FALSE, res, cur, scr, o),
           match(tc[cur + 1], 1, res, cur, scr, o))

\* Repair.__match_next
match_next(tc, res, cur, scr, o) ==
    IF cur + 1 >= Len(tc) THEN Out("False", "no_next", res, cur, scr)
    ELSE OrElse(exec_assertion(tc[cur + 2], TRUE, res, cur, scr, o),
                match(tc[cur + 2], 2, res, cur, scr, o))

\* hook_key with a slip: the assertion is attached to the first committed step
hook_key_first(res) == res[1]

\* cur_result = self.result[-1]: the step the hook attaches the assertion to
hook_key(res) == res[Len(res)]

\* Repair.check_generated_assertion: [ret, result_assertion]
check_generated_assertion(tc, ga, res, ra, cur, scr, o) ==
    IF cur < 1 THEN [ret |-> "None", result_assertion |-> ra]
    ELSE IF tc[cur] \in DOMAIN ga /\ Len(res) > 0
    THEN LET assertion_step == ga[tc[cur]]
             cur_result == hook_key(res)
             p == perform(assertion_step.event, scr, o) IN
         IF p.ret = "Raise" THEN [ret |-> "Raise", result_assertion |-> ra]
         ELSE IF p.ret = "True"
         THEN [ret |-> "None",
               result_assertion |-> DictSet(ra, cur_result, assertion_step)]
         ELSE [ret |-> "None",
               result_assertion |->
                   DictSet(ra, cur_result,
                           Step(with_parameter(assertion_step.event, {"failed"}),
                                assertion_step.ui_before, assertion_step.ui_after))]
    ELSE [ret |-> "None", result_assertion |-> ra]

\* Line 175 of Repair.repair: the hook runs once more when the loop is left
final_hook(tc, ga, res, ra, cur, scr, o) ==
    check_generated_assertion(tc, ga, res, ra, cur, scr, o)

\* exit(0 if succeed else -1) at the end of __quit
quit_code(succeed) == IF succeed THEN 0 ELSE -1

\* save_writes with a slip: the script is written whatever succeed says
save_writes_always(succeed) == TRUE

\* __save: whether the repaired script is written
save_writes(succeed) == succeed

\* list.pop() on the back-step path (lines 153-157): the last step goes, and
\* one step before it when the last one is a SWIPE; pop() of an empty list
\* raises IndexError
back_pop(res) ==
    LET first == IF res[Len(res)].event.action = "SWIPE"
                 THEN SubSeq(res, 1, Len(res) - 1)
                 ELSE res IN
    IF Len(first) = 0 THEN [ret |-> "Raise", result |-> first]
    ELSE [ret |-> "None", result |-> SubSeq(first, 1, Len(first) - 1)]

\* next_pc with a slip: a match-current that succeeded does not end the
\* iteration, match-next runs behind it
next_pc_falls_through(at, ret, more, stepped_back) ==
    IF at = "match_current" THEN "match_next"
    ELSE IF ret = "True" THEN "loop"
    ELSE IF at = "match_next" THEN "candidates"
    ELSE IF more THEN "explore"
    ELSE IF stepped_back THEN "quit_failed"
    ELSE "back_step"

\* The control flow of one iteration of the loop of Repair.repair (lines
\* 139-173): where the iteration goes after the strategy `at` ended with `ret`;
\* more: candidates are left; stepped_back: line 161 was passed
next_pc(at, ret, more, stepped_back) ==
    IF ret = "True" THEN "loop"
    ELSE IF at = "match_current" THEN "match_next"
    ELSE IF at = "match_next" THEN "candidates"
    ELSE IF more THEN "explore"
    ELSE IF stepped_back THEN "quit_failed"
    ELSE "back_step"

\* __explore after its own match_current or match_next ended with ret
explore_pc(at, ret) ==
    IF ret = "True" THEN "loop"
    ELSE IF at = "match_current" THEN "x_match_next"
    ELSE "recover_init"

\* explore_rollback with a slip: the speculative steps stay in result
explore_rollback_keeps(orig, res) == res

\* self.result = original in __explore (lines 338 and 346)
explore_rollback(orig, res) == orig

\* Lines 148-157 of Repair.repair: the back-step up to its recovery
back_step(res, cur, scr) ==
    IF Len(res) = 0 THEN Out("Quit", "cannot_back", res, cur, scr)
    ELSE LET b == back_pop(res) IN
         IF b.ret = "Raise" THEN Out("Raise", "pop_from_empty", b.result, cur, scr)
         ELSE Out("None", "popped", b.result, cur, scr)

\* One device step of a recovery: op "perform" is the perform of result[i],
\* which returned ret
DevStep(op, i, ret) == [op |-> op, i |-> i, ret |-> ret]

\* recover_step with a slip: the loop is left at the first perform that fails
recover_step_stops(i, n, ret) == IF ret = "False" THEN n + 1 ELSE i + 1

\* The for loop of __recover (lines 206-208): the index it goes to after
\* result[i] was performed with ret; the value perform returns is not read
recover_step(i, n, ret) == i + 1

\* __recover's call of init_app: the device steps it logs
recover_init(has_pretest) ==
    [k \in 1 .. Len(init_app(has_pretest)) |->
        DevStep(init_app(has_pretest)[k], 0, "None")]

\* The device steps of a log without what each returned
Issued(log) == [k \in 1 .. Len(log) |-> <<log[k].op, log[k].i>>]

\* What __recover issues for result res when it runs to its end: init_app,
\* then the perform of every step of res, in list order
full_recovery(res, has_pretest) ==
    Issued(recover_init(has_pretest))
    \o [k \in 1 .. Len(res) |-> <<"perform", k>>]

\* ------------------------------------------------------------------ state

VARIABLES
    input,               \* what the command line hands to Repair(...) and the
                         \* device's answer to get_version; Consumed afterwards
    optimize_explore,    \* self.optimize_explore
    pretest,             \* self.pretest is not None
    pc,                  \* where the session stands
    attrs_set,           \* __init__ ran to its end
    testcase, generated_assertion, result, result_assertion, current,
    screen,              \* the screen the device shows
    stepped_back,        \* the iteration is past its back-step (line 161)
    cands,               \* candidates of the running any(...) not yet explored
    original,            \* __explore's copy of result
    rec_i, rec_from,     \* __recover: next step to perform, and its caller
    exit_code,           \* <<>> while running, <<code>> once the process ended
    written,             \* the repaired script was written
    strategies,          \* history: the strategies of this iteration, with results
    last,                \* history: the last single-step call that ended
    xlast,               \* history: the last __explore call that ended or runs
    recover_log,         \* history: device steps of the running __recover
    rec_entry,           \* history: result and current when __recover was entered
    script,              \* the body __generate renders: a list of lines, each a
                         \* list of the string pieces it is put together from
    this_event,          \* Event.perform: self
    device,              \* Event.perform: what the device holds and answers
    device_calls,        \* Event.perform: the actions issued on the device
    perform_ret,         \* Event.perform: "None" before the call, then how it ended
    old, new,            \* match_layout: the two layouts
    matched_points,      \* info.matched_points, as the pairs (old child, new child)
                         \* in which 60% of the old child's keypoints land in the new
    info_matched,        \* info.matched
    matched_parents,     \* info.matched_parents, its items in insertion order
    match_result,        \* result: matched, possible, old_not_matched,
                         \* new_not_matched, score, is_match
    mpc,                 \* match_layout: the phase that runs next
    order,               \* the order in which the running loop visits its set
    passes,              \* passes of the running while loop that have ended
    commits,             \* history: the pairs committed, with phase and candidates
    root,                \* Layout: the nodes of the parsed XML in document order
    fields,              \* Layout: children, parents, cp, unique_children,
                         \* non_overlap, non_unique
    lpc,                 \* Layout.__post_init__: the step that runs next
    picked,              \* Locator.from_node: the node it is given, 0 before
    made,                \* Locator.from_node: the locator it returned
    located,             \* find_in_layout: <<>> before, then what it returned
    explored,            \* __candidates: the events it returned
    rect_a, rect_b,      \* is_overlap: the bounds of its two nodes
    overlap_ret,         \* is_overlap: "None" before the call, then its result
    node_a, node_b,      \* attr_equal and attr_like: the two nodes
    attr_name,           \* attr_equal and attr_like: name1, name2 being None
    attr_ret,            \* "None" before the calls, then what the two returned
    jpc,                 \* the conversion that runs next
    subject,             \* the Event, or the dictionary a Locator is loaded from
    json,                \* the JSON text to_json wrote
    loaded,              \* what from_json or from_dict returned
    again                \* to_dict of the loaded Locator

vars == <<input, optimize_explore, pretest, pc, attrs_set, testcase, generated_assertion, result,
          result_assertion, current, screen, stepped_back, cands, original,
          rec_i, rec_from, exit_code, written, strategies, last, xlast,
          recover_log, rec_entry, script, this_event, device, device_calls, perform_ret,
          old, new, matched_points, info_matched, matched_parents, match_result,
          mpc, order, passes, commits, root, fields, lpc, picked, made, located,
          explored, rect_a, rect_b, overlap_ret,
          node_a, node_b, attr_name, attr_ret, jpc, subject, json, loaded, again>>

\* Event.perform seen by itself
perform_vars == <<this_event, device, device_calls, perform_ret>>

\* The device of a session, which the loop reaches through screen only
NoDevice == [present |-> FALSE, equal |-> FALSE, error |-> FALSE]

\* No Event.perform is looked at by itself
PerformIdle ==
    /\ this_event = Event("CLICK", 1, {})
    /\ device = NoDevice
    /\ device_calls = <<>>
    /\ perform_ret = "None"

\* match_layout seen by itself
match_vars == <<old, new, matched_points, info_matched, matched_parents, match_result,
                mpc, order, passes, commits>>

\* Layout("", b""): no node, no screenshot
EmptyLayout == [side |-> "old", nodes |-> {}, png |-> "empty"]

\* Result()
NoResult == [matched |-> <<>>, possible |-> <<>>, old_not_matched |-> {},
             new_not_matched |-> {}, score |-> <<0, 1>>, is_match |-> FALSE]

\* No match_layout is looked at by itself
MatchIdle ==
    /\ old = EmptyLayout
    /\ new = EmptyLayout
    /\ matched_points = {}
    /\ info_matched = {}
    /\ matched_parents = <<>>
    /\ match_result = NoResult
    /\ mpc = "idle"
    /\ order = <<>>
    /\ passes = 0
    /\ commits = {}

\* Layout.__post_init__ seen by itself
layout_vars == <<root, fields, lpc, picked, made, located, explored>>

\* Locator.from_node, find_in_layout and __candidates on a Layout
locate_vars == <<picked, made, located, explored>>

\* None of them was called
LocateIdle ==
    /\ picked = 0
    /\ made = <<>>
    /\ located = <<>>
    /\ explored = <<>>

\* Layout(""): fields as the dataclass declares them
NoFields == [children |-> {}, parents |-> {}, cp |-> <<>>, unique_children |-> {},
             non_overlap |-> <<>>, non_unique |-> {}]

\* No Layout is built by itself
LayoutIdle ==
    /\ root = <<>>
    /\ fields = NoFields
    /\ lpc = "idle"
    /\ LocateIdle

\* is_overlap seen by itself
overlap_vars == <<rect_a, rect_b, overlap_ret>>

\* No is_overlap is looked at by itself
OverlapIdle ==
    /\ rect_a = <<>>
    /\ rect_b = <<>>
    /\ overlap_ret = "None"

\* attr_equal and attr_like seen by themselves
attr_vars == <<node_a, node_b, attr_name, attr_ret>>

\* No attribute comparison is looked at by itself
AttrIdle ==
    /\ node_a = <<>>
    /\ node_b = <<>>
    /\ attr_name = "text"
    /\ attr_ret = <<>>

\* to_json and from_json seen by themselves
json_vars == <<jpc, subject, json, loaded, again>>

\* No conversion is looked at by itself
JsonIdle ==
    /\ jpc = "idle"
    /\ subject = <<>>
    /\ json = <<>>
    /\ loaded = <<>>
    /\ again = <<>>

\* The functions looked at by themselves
pure_vars == <<layout_vars, overlap_vars, attr_vars, json_vars>>

\* None of them is
PureIdle == LayoutIdle /\ OverlapIdle /\ AttrIdle /\ JsonIdle

\* What the repair loop itself never touches
aux_vars == <<script, perform_vars, match_vars, pure_vars>>

session == <<testcase, generated_assertion, result, result_assertion, current>>
explore_vars == <<cands, original>>
recover_vars == <<rec_i, rec_from, recover_log, rec_entry>>
history == <<strategies, last, xlast>>

\* The repair session
repair_vars == <<input, optimize_explore, pretest, pc, attrs_set, session, screen,
                 stepped_back, explore_vars, recover_vars, exit_code, written, history>>

NoCall == [op |-> "none", nested |-> FALSE, ret |-> "None", why |-> "none",
           result0 |-> <<>>, current0 |-> 0, screen0 |-> StartScreen,
           result1 |-> <<>>, current1 |-> 0, screen1 |-> StartScreen]

NoExplore == [ret |-> "None", why |-> "none", event |-> Event("CLICK", 1, {}),
              result0 |-> <<>>, current0 |-> 0,
              result1 |-> <<>>, current1 |-> 0,
              performed |-> FALSE, changed |-> FALSE, recovered |-> FALSE]

\* The arguments of Repair(...) once __init__ has read them
Consumed == [testcase |-> <<>>, installed |-> FALSE, pretest |-> FALSE,
             optimize_explore |-> FALSE, remove_assertion |-> FALSE]

Init ==
    /\ input \in [testcase : Testcases,
                  installed : BOOLEAN,
                  pretest : BOOLEAN,
                  optimize_explore : BOOLEAN,
                  remove_assertion : BOOLEAN]
    /\ optimize_explore = FALSE
    /\ pretest = FALSE
    /\ pc = "cli"
    /\ attrs_set = FALSE
    /\ testcase = <<>>
    /\ generated_assertion = <<>>
    /\ result = <<>>
    /\ result_assertion = <<>>
    /\ current = 0
    /\ screen = StartScreen
    /\ stepped_back = FALSE
    /\ cands = <<>>
    /\ original = <<>>
    /\ rec_i = 1
    /\ rec_from = "none"
    /\ exit_code = <<>>
    /\ written = FALSE
    /\ strategies = <<>>
    /\ last = NoCall
    /\ xlast = NoExplore
    /\ recover_log = <<>>
    /\ rec_entry = <<>>
    /\ script = <<>>
    /\ PerformIdle
    /\ MatchIdle
    /\ PureIdle

\* ---------------------------------------------------------------- actions

\* An exception nobody catches ends the process with a traceback and status 1
Crash ==
    /\ pc' = "crashed"
    /\ exit_code' = <<1>>
    /\ written' = written

\* Repair.__quit(succeed)
Quit(succeed) ==
    /\ pc' = "done"
    /\ written' = save_writes(succeed)
    /\ exit_code' = <<quit_code(succeed)>>

\* Where a step of the session leads: on, out through __quit(False), or out
\* through an exception
Go(ret, to) ==
    IF ret = "Raise" THEN Crash
    ELSE IF ret = "Quit" \/ to = "quit_failed" THEN Quit(FALSE)
    ELSE pc' = to /\ UNCHANGED <<exit_code, written>>

\* Repair.__init__ as called by the command line (cli/repair.py lines 31-39)
Construct ==
    /\ UNCHANGED aux_vars
    /\ pc = "cli"
    /\ pc' = "constructed"
    /\ input' = Consumed
    /\ IF input.installed
       THEN LET tc == strip_assertions(input.testcase, input.remove_assertion) IN
            /\ attrs_set' = TRUE
            /\ testcase' = init_testcase(tc)
            /\ generated_assertion' = init_generated_assertion(tc)
            /\ result' = <<>>
            /\ result_assertion' = <<>>
            /\ optimize_explore' = input.optimize_explore
            /\ pretest' = input.pretest
            /\ current' = 0
       ELSE UNCHANGED <<attrs_set, session, optimize_explore, pretest>>
    /\ UNCHANGED <<screen, stepped_back, explore_vars, recover_vars, exit_code,
                   written, history>>

\* r.repair() up to its loop (repair.py lines 122-131): reading self.pretest
\* of a session whose __init__ returned early raises AttributeError
RepairStart ==
    /\ UNCHANGED aux_vars
    /\ pc = "constructed"
    /\ IF attrs_set
       THEN /\ pc' = "loop"
            /\ screen' = StartScreen
            /\ UNCHANGED <<exit_code, written>>
       ELSE Crash /\ UNCHANGED screen
    /\ UNCHANGED <<input, optimize_explore, pretest, attrs_set, session, stepped_back,
                   explore_vars,
                   recover_vars, history>>

\* The history record of a single-step call that ends with r
Call(op, nested, r) ==
    [op |-> op, nested |-> nested, ret |-> r.ret, why |-> r.why,
     result0 |-> result, current0 |-> current, screen0 |-> screen,
     result1 |-> r.result, current1 |-> r.current, screen1 |-> r.screen]

\* The history record of the running __explore call once it ends
Returned(ret, why, res, cur, recovered) ==
    [xlast EXCEPT !.ret = ret, !.why = why, !.result1 = res, !.current1 = cur,
                  !.recovered = recovered]

\* The head of the loop with current < len(testcase): line 134, the hook
LoopEnter ==
    /\ UNCHANGED aux_vars
    /\ pc = "loop"
    /\ current < Len(testcase)
    /\ \E o \in Outcomes :
         LET h == check_generated_assertion(testcase, generated_assertion, result,
                                            result_assertion, current, screen, o) IN
         /\ result_assertion' = h.result_assertion
         /\ Go(h.ret, "match_current")
    /\ stepped_back' = FALSE
    /\ strategies' = <<>>
    /\ last' = NoCall
    /\ xlast' = NoExplore
    /\ UNCHANGED <<input, optimize_explore, pretest, attrs_set, testcase, generated_assertion, result, current,
                   screen, explore_vars, recover_vars>>

\* The loop is left with current >= len(testcase): line 175, the hook once
\* more, and line 176, __quit(True)
LoopExit ==
    /\ UNCHANGED aux_vars
    /\ pc = "loop"
    /\ current >= Len(testcase)
    /\ \E o \in Outcomes :
         LET h == final_hook(testcase, generated_assertion, result,
                             result_assertion, current, screen, o) IN
         /\ result_assertion' = h.result_assertion
         /\ IF h.ret = "Raise" THEN Crash ELSE Quit(TRUE)
    /\ last' = NoCall
    /\ xlast' = NoExplore
    /\ strategies' = <<>>
    /\ UNCHANGED <<input, optimize_explore, pretest, attrs_set, testcase, generated_assertion,
                   result, current, screen, stepped_back, explore_vars, recover_vars>>

\* Lines 139 and 164: self.__match_current() of the loop body
MatchCurrent ==
    /\ UNCHANGED aux_vars
    /\ pc = "match_current"
    /\ \E o \in Outcomes :
         LET r == match_current(testcase, result, current, screen, o) IN
         /\ result' = r.result
         /\ current' = r.current
         /\ screen' = r.screen
         /\ last' = Call("match_current", FALSE, r)
         /\ strategies' = Append(strategies, <<"match_current", r.ret>>)
         /\ Go(r.ret, next_pc("match_current", r.ret, FALSE, stepped_back))
    /\ UNCHANGED <<input, optimize_explore, pretest, attrs_set, testcase, generated_assertion,
                   result_assertion,
                   stepped_back, explore_vars, recover_vars, xlast>>

\* Lines 139 and 164: self.__match_next() of the loop body
MatchNext ==
    /\ UNCHANGED aux_vars
    /\ pc = "match_next"
    /\ \E o \in Outcomes :
         LET r == match_next(testcase, result, current, screen, o) IN
         /\ result' = r.result
         /\ current' = r.current
         /\ screen' = r.screen
         /\ last' = Call("match_next", FALSE, r)
         /\ strategies' = Append(strategies, <<"match_next", r.ret>>)
         /\ Go(r.ret, next_pc("match_next", r.ret, FALSE, stepped_back))
    /\ UNCHANGED <<input, optimize_explore, pretest, attrs_set, testcase, generated_assertion,
                   result_assertion,
                   stepped_back, explore_vars, recover_vars, xlast>>

\* Repair.__candidates: the CLICK events of the children of the captured layout
candidates(n) == [k \in 1 .. n |-> Event("CLICK", LiveWidget(k), {})]

\* Lines 144 and 168: self.__candidates() is evaluated and any(...) starts; an
\* empty candidate list makes any(...) False at once
Candidates ==
    /\ UNCHANGED aux_vars
    /\ pc = "candidates"
    /\ \E n \in 0 .. MaxCand :
         /\ cands' = candidates(n)
         /\ strategies' = Append(strategies, <<"candidates", ToString(n)>>)
         /\ Go("False", next_pc("explore", "False", n > 0, stepped_back))
    /\ last' = NoCall
    /\ UNCHANGED <<input, optimize_explore, pretest, attrs_set, session, screen,
                   stepped_back, original, recover_vars, xlast>>

\* __explore(event) from its entry to line 339: the click, the speculative
\* step and the pruning
Explore ==
    /\ UNCHANGED aux_vars
    /\ pc = "explore"
    /\ cands # <<>>
    /\ \E o \in Outcomes :
         LET event == Head(cands)
             p == perform(event, screen, o)
             entry == [NoExplore EXCEPT !.event = event, !.result0 = result,
                                        !.current0 = current,
                                        !.result1 = result, !.current1 = current]
             appended == Append(result, Step(event, Capture(screen), Capture(p.screen)))
             pruned == optimize_explore
                       /\ tree_equal(Capture(screen), Capture(p.screen))
         IN
         /\ screen' = p.screen
         /\ original' = IF p.ret = "True" /\ ~pruned THEN result ELSE <<>>
         /\ IF p.ret = "Raise"
            THEN /\ Crash
                 /\ UNCHANGED <<result, cands, strategies>>
                 /\ xlast' = [entry EXCEPT !.ret = "Raise", !.why = "exception"]
            ELSE IF p.ret = "False"
            THEN /\ UNCHANGED result
                 /\ cands' = Tail(cands)
                 /\ xlast' = [entry EXCEPT !.ret = "False", !.why = "perform_failed"]
                 /\ strategies' = Append(strategies, <<"explore", "False">>)
                 /\ Go("False", next_pc("explore", "False", Tail(cands) # <<>>,
                                        stepped_back))
            ELSE IF pruned
            THEN /\ result' = explore_rollback(result, appended)
                 /\ cands' = Tail(cands)
                 /\ xlast' = [entry EXCEPT !.ret = "False", !.why = "pruned",
                                           !.result1 = explore_rollback(result, appended),
                                           !.performed = TRUE]
                 /\ strategies' = Append(strategies, <<"explore", "False">>)
                 /\ Go("False", next_pc("explore", "False", Tail(cands) # <<>>,
                                        stepped_back))
            ELSE /\ result' = appended
                 /\ xlast' = [entry EXCEPT !.performed = TRUE,
                                           !.changed = (screen # p.screen)]
                 /\ UNCHANGED <<cands, strategies>>
                 /\ Go("True", "x_match_current")
    /\ last' = NoCall
    /\ UNCHANGED <<input, optimize_explore, pretest, attrs_set, testcase, generated_assertion,
                   result_assertion,
                   current, stepped_back, recover_vars>>

\* Line 341, first half: self.__match_current() inside __explore
XMatchCurrent ==
    /\ UNCHANGED aux_vars
    /\ pc = "x_match_current"
    /\ \E o \in Outcomes :
         LET r == match_current(testcase, result, current, screen, o) IN
         /\ result' = r.result
         /\ current' = r.current
         /\ screen' = r.screen
         /\ last' = Call("match_current", TRUE, r)
         /\ IF r.ret = "True"
            THEN /\ xlast' = Returned("True", r.why, r.result, r.current, FALSE)
                 /\ strategies' = Append(strategies, <<"explore", "True">>)
                 /\ cands' = <<>>
                 /\ original' = <<>>
            ELSE /\ xlast' = Returned(IF r.ret = "False" THEN "None" ELSE r.ret,
                                      r.why, r.result, r.current, FALSE)
                 /\ UNCHANGED <<strategies, explore_vars>>
         /\ Go(r.ret, explore_pc("match_current", r.ret))
    /\ UNCHANGED <<input, optimize_explore, pretest, attrs_set, testcase, generated_assertion,
                   result_assertion, stepped_back, recover_vars>>

\* Lines 341-347: self.__match_next() inside __explore and, when it returns
\* False too, self.result = original before the recovery
XMatchNext ==
    /\ UNCHANGED aux_vars
    /\ pc = "x_match_next"
    /\ \E o \in Outcomes :
         LET r == match_next(testcase, result, current, screen, o) IN
         /\ current' = r.current
         /\ screen' = r.screen
         /\ last' = Call("match_next", TRUE, r)
         /\ IF r.ret = "True"
            THEN /\ result' = r.result
                 /\ xlast' = Returned("True", r.why, r.result, r.current, FALSE)
                 /\ strategies' = Append(strategies, <<"explore", "True">>)
                 /\ cands' = <<>>
                 /\ original' = <<>>
                 /\ UNCHANGED rec_from
            ELSE IF r.ret = "False"
            THEN /\ result' = explore_rollback(original, r.result)
                 /\ xlast' = Returned("None", r.why,
                                      explore_rollback(original, r.result),
                                      r.current, FALSE)
                 /\ rec_from' = "explore"
                 /\ original' = <<>>
                 /\ UNCHANGED <<strategies, cands>>
            ELSE /\ result' = r.result
                 /\ xlast' = Returned(r.ret, r.why, r.result, r.current, FALSE)
                 /\ UNCHANGED <<strategies, rec_from, explore_vars>>
         /\ Go(r.ret, explore_pc("match_next", r.ret))
    /\ UNCHANGED <<input, optimize_explore, pretest, attrs_set, testcase, generated_assertion,
                   result_assertion, stepped_back, rec_i, recover_log, rec_entry>>

\* Lines 148-160: the back-step, up to its call of __recover
BackStep ==
    /\ UNCHANGED aux_vars
    /\ pc = "back_step"
    /\ LET r == back_step(result, current, screen) IN
       /\ result' = r.result
       /\ last' = Call("back_step", FALSE, r)
       /\ strategies' = Append(strategies, <<"back_step", r.ret>>)
       /\ Go(r.ret, "recover_init")
    /\ rec_from' = "back_step"
    /\ xlast' = NoExplore
    /\ UNCHANGED <<input, optimize_explore, pretest, attrs_set, testcase, generated_assertion,
                   result_assertion,
                   current, screen, stepped_back, explore_vars, rec_i, recover_log, rec_entry>>

\* __recover, line 205: init_app
RecoverInit ==
    /\ UNCHANGED aux_vars
    /\ pc = "recover_init"
    /\ pc' = "recover_perform"
    /\ screen' = StartScreen
    /\ rec_i' = 1
    /\ recover_log' = recover_init(pretest)
    /\ rec_entry' = <<result, current>>
    /\ last' = NoCall
    /\ UNCHANGED <<input, optimize_explore, pretest, attrs_set, session, stepped_back,
                   explore_vars, rec_from,
                   exit_code, written, strategies, xlast>>

\* __recover, lines 206-208: one turn of the loop over result
RecoverPerform ==
    /\ UNCHANGED aux_vars
    /\ pc = "recover_perform"
    /\ rec_i <= Len(result)
    /\ \E o \in Outcomes :
         LET p == perform(result[rec_i].event, screen, o) IN
         /\ screen' = p.screen
         /\ IF p.ret = "Raise"
            THEN Crash /\ UNCHANGED <<rec_i, recover_log>>
            ELSE /\ rec_i' = recover_step(rec_i, Len(result), p.ret)
                 /\ recover_log' = Append(recover_log,
                                          DevStep("perform", rec_i, p.ret))
                 /\ UNCHANGED <<pc, exit_code, written>>
    /\ UNCHANGED <<input, optimize_explore, pretest, attrs_set, session, stepped_back,
                   explore_vars, rec_from, rec_entry, history>>

\* __recover returns: to line 348 of __explore, which returns False, or to
\* line 164 of the loop body
RecoverReturn ==
    /\ UNCHANGED aux_vars
    /\ pc = "recover_perform"
    /\ rec_i > Len(result)
    /\ IF rec_from = "explore"
       THEN /\ cands' = Tail(cands)
            /\ xlast' = Returned("False", "match_failed", result, current,
                                 Issued(recover_log) = full_recovery(result, pretest))
            /\ strategies' = Append(strategies, <<"explore", "False">>)
            /\ Go("False", next_pc("explore", "False", Tail(cands) # <<>>,
                                   stepped_back))
            /\ UNCHANGED stepped_back
       ELSE /\ stepped_back' = TRUE
            /\ Go("None", "match_current")
            /\ UNCHANGED <<cands, xlast, strategies>>
    /\ recover_log' = <<>>
    /\ rec_entry' = <<>>
    /\ rec_i' = 1
    /\ rec_from' = "none"
    /\ UNCHANGED <<input, optimize_explore, pretest, attrs_set, session, screen, original, last>>

Next ==
    \/ Construct
    \/ RepairStart
    \/ LoopEnter
    \/ LoopExit
    \/ MatchCurrent
    \/ MatchNext
    \/ Candidates
    \/ Explore
    \/ XMatchCurrent
    \/ XMatchNext
    \/ BackStep
    \/ RecoverInit
    \/ RecoverPerform
    \/ RecoverReturn

Spec == Init /\ [][Next]_vars

\* ------------------------------------------------------------------ claims

\* The last strategy of this iteration, with how it ended
LastStrategy == strategies[Len(strategies)]

\* Entries j+1 .. i-1 of the history are explorations that returned False
FailedExplorations(j, i) ==
    \A k \in (j + 1) .. (i - 1) : strategies[k] = <<"explore", "False">>

\* The history holds the candidate list that entry i belongs to: an entry
\* "candidates" behind a match-next that returned False, followed up to i by
\* explorations that returned False only; all: every candidate was explored
AfterCandidates(i, all) ==
    \E j \in 2 .. (i - 1) :
        /\ strategies[j][1] = "candidates"
        /\ strategies[j - 1] = <<"match_next", "False">>
        /\ FailedExplorations(j, i)
        /\ all => strategies[j][2] = ToString(i - 1 - j)

\* C1: in every iteration of the loop of Repair.repair the strategies run in a
\* fixed order: match-next only after match-current returned False, the
\* exploration of a candidate only after both returned False (and after every
\* earlier candidate's exploration returned False), the back-step only after
\* the exploration of every candidate returned False; the first strategy that
\* succeeds ends the iteration and no later strategy runs in it.
C1_StrategyOrder ==
    /\ \A i \in DOMAIN strategies :
         LET e == strategies[i] IN
         /\ e[1] = "match_current" =>
              i = 1 \/ strategies[i - 1] = <<"back_step", "None">>
         /\ e[1] = "match_next" =>
              i > 1 /\ strategies[i - 1] = <<"match_current", "False">>
         /\ e[1] = "candidates" =>
              i > 1 /\ strategies[i - 1] = <<"match_next", "False">>
         /\ e[1] = "explore" => AfterCandidates(i, FALSE)
         /\ e[1] = "back_step" => AfterCandidates(i, TRUE)
         /\ e[2] \in {"True", "Quit", "Raise"} => i = Len(strategies)
    /\ strategies # <<>> /\ LastStrategy[2] = "True" => pc = "loop"
    /\ pc = "match_next" => LastStrategy = <<"match_current", "False">>
    /\ pc = "explore" => cands # <<>> /\ AfterCandidates(Len(strategies) + 1, FALSE)
    /\ pc = "back_step" => AfterCandidates(Len(strategies) + 1, TRUE)

\* C1 witness: an iteration that went down the whole ladder twice: two
\* candidates explored in vain, the back-step, and again match-current,
\* match-next and a failed exploration
C1_Witness ==
    \E i \in DOMAIN strategies :
        /\ i > 4
        /\ strategies[i] = <<"back_step", "None">>
        /\ strategies[i - 1] = <<"explore", "False">>
        /\ strategies[i - 2] = <<"explore", "False">>
        /\ Len(strategies) >= i + 4
        /\ LastStrategy = <<"explore", "False">>

\* The effect of the hook of line 175 on the state that is written out: the
\* last committed step carries the generated assertion of the last step
FinalHookDone ==
    (current >= 1 /\ testcase[current] \in DOMAIN generated_assertion /\ Len(result) > 0)
        => result[Len(result)] \in DOMAIN result_assertion

\* Every candidate was explored in vain after the back-step
Exhausted ==
    /\ stepped_back
    /\ strategies # <<>>
    /\ \/ LastStrategy = <<"explore", "False">> /\ cands = <<>>
       \/ LastStrategy = <<"candidates", "0">>

\* C2: a session that ends through __quit exits with 0 only when current has
\* reached len(testcase), and with -1 on every fatal path (failed current
\* assertion, perform failure after a match, unresolvable base locator,
\* exhausted exploration); the script is written exactly when the exit is the
\* successful one, and then the generated-assertion hook has run once more.
C2_ExitCodes ==
    /\ pc = "done" =>
         /\ exit_code \in {<<0>>, <<-1>>}
         /\ exit_code = <<0>> => current = Len(testcase)
         /\ written <=> exit_code = <<0>>
         /\ written => FinalHookDone
    /\ pc # "done" /\ pc # "crashed" => exit_code = <<>> /\ ~written
    /\ last.why \in {"assertion_failed", "perform_failed", "no_base", "cannot_back"}
         => pc = "done" /\ exit_code = <<-1>>
    /\ Exhausted => pc = "done" /\ exit_code = <<-1>>

\* C2 witness: a successful exit whose final hook attached the generated
\* assertion of the last step to the last committed step
C2_Witness ==
    /\ pc = "done"
    /\ exit_code = <<0>>
    /\ written
    /\ current >= 1
    /\ testcase[current] \in DOMAIN generated_assertion
    /\ Len(result) > 0
    /\ result[Len(result)] \in DOMAIN result_assertion

\* C3: whenever __explore returns False, result is the list it was on entry
\* and current is unchanged; whenever it returns True, result is the entry
\* list extended by the exploration step and at most one matched step, and
\* current has advanced by 1 or 2; a failed exploration whose click was
\* performed and changed the UI has run the full recovery before it returns.
C3_ExploreFrame ==
    /\ xlast.ret = "False" =>
         /\ result = xlast.result0
         /\ current = xlast.current0
         /\ xlast.performed /\ xlast.changed => xlast.recovered
    /\ xlast.ret = "True" =>
         /\ Len(result) \in {Len(xlast.result0) + 1, Len(xlast.result0) + 2}
         /\ SubSeq(result, 1, Len(xlast.result0)) = xlast.result0
         /\ result[Len(xlast.result0) + 1].event = xlast.event
         /\ current \in {xlast.current0 + 1, xlast.current0 + 2}

\* C3 witness: an exploration that appended its step to a non-empty result,
\* changed the UI, matched neither step, and returned False after recovery
C3_Witness ==
    /\ xlast.ret = "False"
    /\ xlast.performed
    /\ xlast.changed
    /\ xlast.recovered
    /\ Len(xlast.result0) > 0
    /\ pc = "explore"

\* The steps back-step takes off a result: two when the last one is a SWIPE
PopCount(res) == IF res[Len(res)].event.action = "SWIPE" THEN 2 ELSE 1

\* C4 (as claimed): when no candidate exploration succeeds, an empty result
\* ends the session with exit -1; otherwise back-step removes the last
\* committed step and, when that step is a SWIPE, one further step, leaves
\* current as it is and goes on to the recovery and one retry; a retry that
\* fails too ends the session with exit -1.
C4_BackStepClaim ==
    /\ last.op = "back_step" =>
         IF last.result0 = <<>>
         THEN pc = "done" /\ exit_code = <<-1>>
         ELSE /\ pc = "recover_init"
              /\ Len(result) = Len(last.result0) - PopCount(last.result0)
              /\ result = SubSeq(last.result0, 1, Len(result))
              /\ current = last.current0
    /\ Cardinality({ i \in DOMAIN strategies : strategies[i][1] = "back_step" }) <= 1
    /\ Exhausted => pc = "done" /\ exit_code = <<-1>>

\* The step a single-step call was about: testcase[current] for match-current,
\* testcase[current + 1] for match-next
StepOf(call) ==
    testcase[call.current0 + (IF call.op = "match_next" THEN 2 ELSE 1)]

\* The call was a match-current or match-next that had a step to work on
Matching(call) ==
    \/ call.op = "match_current"
    \/ call.op = "match_next" /\ call.current0 + 1 < Len(testcase)

\* The call evaluated an assertion that did not hold
AssertionFailed(call) ==
    /\ Matching(call)
    /\ is_assertion(StepOf(call).event)
    /\ call.ret \notin {"True", "Raise"}

C6_PerformFailureFatal ==
    last.why = "perform_failed" =>
        /\ Matching(last)
        /\ last.ret = "Quit"
        /\ pc = "done"
        /\ exit_code = <<-1>>
        /\ result = last.result0
        /\ current = last.current0

\* C6 witness: inside an exploration the next step (offset 2) was matched and
\* its perform failed
C6_Witness ==
    /\ last.why = "perform_failed"
    /\ last.op = "match_next"
    /\ last.nested
    /\ pc = "done"

\* The step's recorded locator resolves to no node of its recorded ui_before
Unresolvable(step) ==
    /\ ~is_assertion(step.event)
    /\ step.event.locator # None
    /\ find_in_layout(step.event.locator, step.ui_before) = None

\* C7: when the recorded locator of the step being matched resolves to no
\* node of the layout built from the step's ui_before, the session ends with
\* exit -1 and does not fall through to match-next, exploration or back-step.
C7_NoBaseFatal ==
    Matching(last) /\ Unresolvable(StepOf(last)) =>
        /\ last.ret = "Quit"
        /\ pc = "done"
        /\ exit_code = <<-1>>

\* C7 witness: the loop's match-current met a step whose locator no longer
\* resolves in its own record
C7_Witness ==
    /\ last.op = "match_current"
    /\ ~last.nested
    /\ Unresolvable(StepOf(last))
    /\ pc = "done"

\* C8 (as claimed): when the version of the package cannot be queried at the
\* start, the session has ended with exit -1 before anything else is done
\* with it.
C8_VersionFailureFatal ==
    pc # "cli" /\ ~attrs_set => pc = "done" /\ exit_code = <<-1>>

\* C9 (as claimed): an unexpected exception raised while a candidate is
\* explored leaves result and current as they were when the exploration was
\* entered, and the session goes on instead of ending.
C9_ExploreRollsBackOnException ==
    xlast.ret = "Raise" =>
        /\ result = xlast.result0
        /\ current = xlast.current0
        /\ pc \notin {"crashed", "done"}

\* What init_app is to issue: stop, clear, grant, start, pretest, wait
ExpectedInit ==
    IF pretest
    THEN << <<"app_stop", 0>>, <<"app_clear", 0>>, <<"grant_permission", 0>>,
            <<"app_start", 0>>, <<"pretest", 0>>, <<"wait", 0>> >>
    ELSE << <<"app_stop", 0>>, <<"app_clear", 0>>, <<"grant_permission", 0>>,
            <<"app_start", 0>>, <<"wait", 0>> >>

\* C10: __recover first re-initialises the app and only then performs the
\* events of result in list order, each exactly once, going on past a perform
\* that fails; it changes neither result nor current.
C10_Recover ==
    pc = "recover_perform" =>
        /\ rec_i \in 1 .. Len(result) + 1
        /\ Issued(recover_log) =
             ExpectedInit \o [k \in 1 .. rec_i - 1 |-> <<"perform", k>>]
        /\ rec_entry = <<result, current>>

\* C10 witness: a recovery that ran to its end over two steps or more although
\* the perform of a step before the last one failed
C10_Witness ==
    /\ pc = "recover_perform"
    /\ rec_i = Len(result) + 1
    /\ Len(result) >= 2
    /\ \E k \in 1 .. Len(recover_log) - 1 :
         recover_log[k].op = "perform" /\ recover_log[k].ret = "False"

\* The hook has something to do: current >= 1, testcase[current - 1] has a
\* generated assertion and result is not empty
HookActs ==
    /\ current >= 1
    /\ testcase[current] \in DOMAIN generated_assertion
    /\ Len(result) > 0

\* The assertion step with failed=true added to its event's parameter
FailedCopy(a) ==
    [a EXCEPT !.event = [a.event EXCEPT !.parameter = a.event.parameter \cup {"failed"}]]

\* What one run of the hook may do to the session
HookEffect ==
    /\ current' = current
    /\ result' = result
    /\ generated_assertion' = generated_assertion
    /\ testcase' = testcase
    /\ IF HookActs /\ pc' # "crashed"
       THEN LET a == generated_assertion[testcase[current]]
                k == result[Len(result)] IN
            /\ "failed" \notin a.event.parameter
            /\ DOMAIN result_assertion' = DOMAIN result_assertion \cup {k}
            /\ result_assertion'[k] \in {a, FailedCopy(a)}
            /\ \A x \in DOMAIN result_assertion \ {k} :
                 result_assertion'[x] = result_assertion[x]
       ELSE result_assertion' = result_assertion

MatchedWithLocator(call) ==
    /\ Matching(call)
    /\ call.ret = "True"
    /\ ~is_assertion(StepOf(call).event)
    /\ StepOf(call).event.locator # None

\* C13: after a successful __match of a step with a locator, current has
\* advanced by the offset in every case; result has grown by exactly one step,
\* the rewritten event with the captured UI before and after, when the tree
\* after the perform differs from the tree before it, and by no step when the
\* two trees are equal.
C13_MatchRecordsOrSkips ==
    MatchedWithLocator(last) =>
        LET offset == IF last.op = "match_next" THEN 2 ELSE 1
            before == Capture(last.screen0)
            after == Capture(last.screen1) IN
        /\ last.current1 = last.current0 + offset
        /\ IF before = after
           THEN last.result1 = last.result0
           ELSE /\ Len(last.result1) = Len(last.result0) + 1
                /\ SubSeq(last.result1, 1, Len(last.result0)) = last.result0
                /\ LET s == last.result1[Len(last.result1)] IN
                   /\ s.event.action = StepOf(last).event.action
                   /\ s.event.parameter = StepOf(last).event.parameter
                   /\ s.event.locator \in { LiveWidget(k) : k \in 1 .. NumTargets }
                   /\ s.ui_before = before
                   /\ s.ui_after = after

\* C13 witness: the next step (offset 2) was matched, its perform left the UI
\* as it was, and the step was skipped with a non-empty result
C13_Witness ==
    /\ MatchedWithLocator(last)
    /\ last.op = "match_next"
    /\ last.screen0 = last.screen1
    /\ last.result0 # <<>>
    /\ last.result1 = last.result0
    /\ last.current1 = last.current0 + 2

\* -------------------------------------------------------- script generation

\* most steps of a result handed to __generate
MaxResult == 2

\* Locator.generate_u2: the selector text of the locator
locator_generate_u2(locator) == "(" \o ToString(locator) \o ")"

\* Event.generate_u2(device_part): the line as the list of its pieces
generate_u2(ev, device_part) ==
    LET locator_part == IF ev.locator = None THEN <<>>
                        ELSE <<locator_generate_u2(ev.locator)>>
        prefix == <<device_part>> \o locator_part
        suffix == IF "generated" \in ev.parameter \/ "repaired" \in ev.parameter
                  THEN <<"  # ">>
                       \o (IF "generated" \in ev.parameter THEN <<"generated">> ELSE <<>>)
                       \o (IF "repaired" \in ev.parameter THEN <<"repaired">> ELSE <<>>)
                  ELSE <<>>
    IN  CASE ev.action = "CLICK" -> prefix \o <<".click()">> \o suffix
          [] ev.action = "LONG_CLICK" -> prefix \o <<".long_click()">> \o suffix
          [] ev.action = "SET_TEXT" -> prefix \o <<".set_text(", "text", ")">> \o suffix
          [] ev.action = "EXIST" ->
                IF "failed" \in ev.parameter
                THEN <<"# ", "assert ">> \o prefix \o <<".exists">> \o suffix
                ELSE <<"assert ">> \o prefix \o <<".exists">> \o suffix
          [] ev.action = "NOT_EXIST" ->
                <<"assert ", "not ">> \o prefix \o <<".exists">> \o suffix
          [] ev.action = "BACK" -> prefix \o <<".press(back)">> \o suffix
          [] ev.action = "EQUAL" ->
                <<"assert ">> \o prefix \o <<".info[", "attr", "] == ", "oracle">> \o suffix
          [] ev.action = "NOT_EQUAL" ->
                <<"assert ">> \o prefix \o <<".info[", "attr", "] != ", "oracle">> \o suffix
          [] ev.action = "SWIPE" -> prefix \o <<".swipe(", "fx, fy, tx, ty", ")">> \o suffix

\* generate_step with a slip: the attached assertion is left out
generate_step_alone(step, ra) == <<generate_u2(step.event, "d")>>

\* The body of the loop of __generate: the line of the step, and behind it the
\* line of its result_assertion entry when it has one
generate_step(step, ra) ==
    <<generate_u2(step.event, "d")>>
    \o (IF step \in DOMAIN ra THEN <<generate_u2(ra[step].event, "d")>> ELSE <<>>)

RECURSIVE generate_lines(_, _)
\* lines of __generate: for step in self.result
generate_lines(res, ra) ==
    IF res = <<>> THEN <<>>
    ELSE generate_step(Head(res), ra) \o generate_lines(Tail(res), ra)

\* content of __generate: every line behind four spaces, joined by newlines
generate(res, ra) ==
    LET lines == generate_lines(res, ra) IN
    [i \in 1 .. Len(lines) |-> <<"    ">> \o lines[i]]

\* The committed steps a session can end with: a click on a live widget, a
\* BACK, and a recorded assertion that held
CommittedSteps ==
    { Step(Event("CLICK", LiveWidget(1), {}), Capture(0), Capture(1)),
      Step(Event("BACK", None, {}), Capture(1), Capture(0)),
      Step(Event("EXIST", LiveWidget(1), {}), Capture(0), Capture(0)) }

\* A step that was committed once and is no longer in result
RemovedStep == Step(Event("LONG_CLICK", LiveWidget(1), {}), Capture(0), Capture(1))

\* The values check_generated_assertion stores: a generated assertion of any
\* assertion action, as it is or as the copy that carries failed
AttachedAssertions ==
    { Step(Event(a, 1, {"generated"} \cup f), EmptyUi, EmptyUi) :
        a \in AssertionActions, f \in {{}, {"failed"}} }

\* The sessions __quit(True) can be called in
SaveInit ==
    /\ result \in UNION { [1 .. n -> CommittedSteps] : n \in 1 .. MaxResult }
    /\ \E keys \in SUBSET (Range(result) \cup {RemovedStep}) :
         result_assertion \in [keys -> AttachedAssertions]
    /\ pc = "quit"
    /\ input = Consumed
    /\ optimize_explore = FALSE
    /\ pretest = FALSE
    /\ attrs_set = TRUE
    /\ testcase = <<>>
    /\ generated_assertion = <<>>
    /\ current = 0
    /\ screen = StartScreen
    /\ stepped_back = FALSE
    /\ cands = <<>>
    /\ original = <<>>
    /\ rec_i = 1
    /\ rec_from = "none"
    /\ exit_code = <<>>
    /\ written = FALSE
    /\ strategies = <<>>
    /\ last = NoCall
    /\ xlast = NoExplore
    /\ recover_log = <<>>
    /\ rec_entry = <<>>
    /\ script = <<>>
    /\ PerformIdle
    /\ MatchIdle
    /\ PureIdle

\* __quit(True): __save writes what __generate renders, and the process exits
Save ==
    /\ pc = "quit"
    /\ Quit(TRUE)
    /\ script' = generate(result, result_assertion)
    /\ UNCHANGED <<input, optimize_explore, pretest, attrs_set, session, screen,
                   stepped_back, explore_vars, recover_vars, history, perform_vars,
                   match_vars, pure_vars>>

SaveNext == Save

SpecSave == SaveInit /\ [][SaveNext]_vars

\* The number of the script line that renders result[i]
LineOf(i) ==
    i + Cardinality({ j \in 1 .. (i - 1) : result[j] \in DOMAIN result_assertion })

\* The line starts, behind its indentation, with the comment mark
Commented(line) == Len(line) >= 2 /\ line[2] = "# "

\* C12 (as claimed): every assertion recorded in result_assertion with failed
\* is rendered in the script as a commented-out line, whichever assertion
\* action it has.
C12_FailedAssertionsCommented ==
    pc = "done" /\ written =>
        \A i \in DOMAIN result :
            (/\ result[i] \in DOMAIN result_assertion
             /\ "failed" \in result_assertion[result[i]].event.parameter)
                => Commented(script[LineOf(i) + 1])

\* C15: the body of the script holds, in result order, exactly one line per
\* committed step, each followed at once by the line of its result_assertion
\* entry when it has one, every line behind four spaces; a step that is not in
\* result has no line.
C15_ScriptBody ==
    pc = "done" /\ written =>
        /\ Len(script) = LineOf(Len(result) + 1) - 1
        /\ \A i \in DOMAIN result :
             /\ script[LineOf(i)] = <<"    ">> \o generate_u2(result[i].event, "d")
             /\ result[i] \in DOMAIN result_assertion =>
                  /\ LineOf(i + 1) = LineOf(i) + 2
                  /\ script[LineOf(i) + 1] =
                       <<"    ">> \o generate_u2(result_assertion[result[i]].event, "d")
             /\ result[i] \notin DOMAIN result_assertion => LineOf(i + 1) = LineOf(i) + 1
        /\ \A k \in DOMAIN script : script[k][1] = "    "

\* C15 witness: a script of three lines for two steps, the first of which has
\* an assertion attached, written while result_assertion also holds an entry
\* for a step that is no longer in result
C15_Witness ==
    /\ pc = "done"
    /\ written
    /\ Len(result) = 2
    /\ result[1] \in DOMAIN result_assertion
    /\ result[2] \notin DOMAIN result_assertion
    /\ RemovedStep \in DOMAIN result_assertion
    /\ Len(script) = 3

\* ------------------------------------------------------------ Event.perform

\* The members of Action
Actions ==
    {"CLICK", "LONG_CLICK", "SET_TEXT", "EXIST", "NOT_EXIST", "EQUAL", "NOT_EQUAL",
     "BACK", "SWIPE"}

\* No repair session runs
RepairIdle ==
    /\ input = Consumed
    /\ optimize_explore = FALSE
    /\ pretest = FALSE
    /\ pc = "idle"
    /\ attrs_set = FALSE
    /\ testcase = <<>>
    /\ generated_assertion = <<>>
    /\ result = <<>>
    /\ result_assertion = <<>>
    /\ current = 0
    /\ screen = StartScreen
    /\ stepped_back = FALSE
    /\ cands = <<>>
    /\ original = <<>>
    /\ rec_i = 1
    /\ rec_from = "none"
    /\ exit_code = <<>>
    /\ written = FALSE
    /\ strategies = <<>>
    /\ last = NoCall
    /\ xlast = NoExplore
    /\ recover_log = <<>>
    /\ rec_entry = <<>>

\* What a call ends with: the exception it raises ("None": it returns) and
\* the actions it has issued on the device
Ended(exc, calls) == [exc |-> exc, calls |-> calls]

\* A call on the device or on a ui object: a device that fails raises an
\* exception of its own; a ui object that is not on the screen raises
\* UiObjectNotFoundError when it is acted on or read
device_call(dev, needs_widget, op) ==
    IF dev.error THEN Ended("Other", <<>>)
    ELSE IF needs_widget /\ ~dev.present THEN Ended("UiObjectNotFoundError", <<>>)
    ELSE Ended("None", op)

\* assert cond, cond read from the device
assert_on(dev, needs_widget, cond) ==
    LET read == device_call(dev, needs_widget, <<>>) IN
    IF read.exc # "None" THEN read
    ELSE IF cond THEN Ended("None", <<>>)
    ELSE Ended("AssertionError", <<>>)

\* Action.perform(device, ui_object, parameter=...); ui_object None is 0
action_perform(action, ui_object, dev) ==
    IF ui_object = None
    THEN CASE action = "BACK" -> device_call(dev, FALSE, <<"press">>)
           [] action = "SWIPE" -> device_call(dev, FALSE, <<"swipe">>)
           [] OTHER -> Ended("ValueError", <<>>)
    ELSE CASE action = "CLICK" -> device_call(dev, TRUE, <<"click">>)
           [] action = "LONG_CLICK" -> device_call(dev, TRUE, <<"long_click">>)
           [] action = "SET_TEXT" -> device_call(dev, TRUE, <<"set_text">>)
           [] action = "EXIST" -> assert_on(dev, FALSE, dev.present)
           [] action = "NOT_EXIST" -> assert_on(dev, FALSE, ~dev.present)
           [] action = "EQUAL" -> assert_on(dev, TRUE, dev.equal)
           [] action = "NOT_EQUAL" -> assert_on(dev, TRUE, ~dev.equal)
           [] OTHER -> Ended("ValueError", <<>>)

\* caught with a slip: every exception is caught
caught_any(exc) == TRUE

\* except (AssertionError, ValueError, UiObjectNotFoundError)
caught(exc) == exc \in {"AssertionError", "ValueError", "UiObjectNotFoundError"}

\* Event.perform(device): [ret, calls]
event_perform(ev, dev) ==
    LET r == action_perform(ev.action, ev.locator, dev) IN
    IF r.exc = "None" THEN [ret |-> "True", calls |-> r.calls]
    ELSE IF caught(r.exc) THEN [ret |-> "False", calls |-> r.calls]
    ELSE [ret |-> "Raise", calls |-> r.calls]

\* The events and devices Event.perform can meet
PerformInit ==
    /\ RepairIdle
    /\ script = <<>>
    /\ this_event \in { Event(a, l, {}) : a \in Actions, l \in {None, 1} }
    /\ device \in [present : BOOLEAN, equal : BOOLEAN, error : BOOLEAN]
    /\ device_calls = <<>>
    /\ perform_ret = "None"
    /\ MatchIdle
    /\ PureIdle

\* event.perform(device)
Perform ==
    /\ perform_ret = "None"
    /\ LET r == event_perform(this_event, device) IN
       /\ perform_ret' = r.ret
       /\ device_calls' = r.calls
    /\ UNCHANGED <<this_event, device, script, input, optimize_explore, pretest, pc,
                   attrs_set, session, screen, stepped_back, explore_vars,
                   recover_vars, exit_code, written, history, match_vars, pure_vars>>

PerformNext == Perform

SpecPerform == PerformInit /\ [][PerformNext]_vars

\* The action does not fit the presence or absence of a locator
Misfit == (this_event.locator = None) # (this_event.action \in NoLocatorActions)

\* The action acts on or reads a widget that is not on the screen
MissingWidget ==
    /\ ~Misfit
    /\ this_event.action \in {"CLICK", "LONG_CLICK", "SET_TEXT", "EQUAL", "NOT_EQUAL"}
    /\ ~device.present

\* The action is an assertion that does not hold on the device
DoesNotHold ==
    /\ ~Misfit
    /\ \/ this_event.action = "EXIST" /\ ~device.present
       \/ this_event.action = "NOT_EXIST" /\ device.present
       \/ this_event.action = "EQUAL" /\ device.present /\ ~device.equal
       \/ this_event.action = "NOT_EQUAL" /\ device.present /\ device.equal

\* The one action perform issues for a True: none for an assertion
ExpectedCalls ==
    CASE this_event.action = "CLICK" -> <<"click">>
      [] this_event.action = "LONG_CLICK" -> <<"long_click">>
      [] this_event.action = "SET_TEXT" -> <<"set_text">>
      [] this_event.action = "BACK" -> <<"press">>
      [] this_event.action = "SWIPE" -> <<"swipe">>
      [] OTHER -> <<>>

MaxNodes == 2

\* A node of a layout tree: the attributes the matcher reads
Node(rid, desc, text, class) ==
    ("resource-id" :> rid) @@ ("content-desc" :> desc) @@ ("text" :> text)
    @@ ("class" :> class)

\* The leaves the old screens are drawn from
OldPool == (1 .. 8) \cup {10}

\* The leaves the new screens are drawn from
NewPool == 11 .. 19

\* An old screen with a list of two rows, each row holding an "item" and a
\* "cell", and a leaf outside the list
OldListScreen == {1, 2, 3, 6, 9}

\* The same list on the new screen, the text of one "cell" changed
NewListScreen == {11, 12, 16, 20}

\* The list container and its two rows, in the old and in the new tree
Containers == {90, 91, 92, 190, 191, 192}

\* The copy of an old leaf in a new layout built from the same XML
Twin(n) == n + 200

\* The leaf a node of a new layout was copied from, the node itself otherwise
Original(n) == IF n > 200 THEN n - 200 ELSE n

\* An old leaf whose text is a single blank
BlankText == 23

\* The attributes of the nodes as the XML holds them
Attrib(m) ==
    LET n == Original(m) IN
    CASE n \in {1, 7, 11} -> Node("item", "", "save", "android.view.View")
      [] n \in {2, 12} -> Node("item", "", "open", "android.view.View")
      [] n = 3 -> Node("", "menu", "", "android.view.View")
      [] n \in {4, 8} -> Node("", "", "save", "android.view.View")
      [] n = 5 -> Node("", "", "user", "android.widget.EditText")
      [] n = 6 -> Node("cell", "", "name", "android.view.View")
      [] n \in {9, 20} -> Node("cell", "", "quit", "android.view.View")
      [] n = 10 -> Node("cell", "", "amed", "android.view.View")
      [] n = 13 -> Node("", "menu", "save", "android.view.View")
      [] n = 14 -> Node("", "menu", "open", "android.view.View")
      [] n = 15 -> Node("", "", "mail", "android.widget.EditText")
      [] n = 16 -> Node("cell", "", "names", "android.view.View")
      [] n = 17 -> Node("", "back", "", "android.view.View")
      [] n = 18 -> Node("cell", "", "named", "android.view.View")
      [] n = 19 -> Node("", "", "saved", "android.view.View")
      [] n = BlankText -> Node("", "", " ", "android.view.View")
      [] n \in {90, 190} -> Node("list", "", "", "android.widget.ListView")
      [] n \in {91, 92, 191, 192} ->
            Node("row", "", "", "android.widget.LinearLayout")

\* The row of the list a leaf lies in, 0 for a leaf outside the list
RowOf(m) ==
    LET n == Original(m) IN
    CASE n \in {1, 6, 8, 10, 11, 16, 18, 19} -> 1
      [] n \in {2, 7, 9, 12, 20} -> 2
      [] OTHER -> 0

\* Levenshtein.ratio(a, b) >= threshold on the attribute values of the model
Similar(a, b) ==
    \/ a = b
    \/ {a, b} \in {{"save", "saved"}, {"name", "names"}, {"name", "named"},
                   {"name", "amed"}, {"amed", "named"}, {"names", "named"},
                   {"save", "save as"}, {"com.app:id/", "com.app:id/save"}}

\* s.strip().lower() on the attribute values of the model
strip_lower(s) ==
    CASE s \in {" ", ""} -> ""
      [] s \in {" Save ", "SAVE"} -> "save"
      [] s = "Save  As" -> "save  as"
      [] s = "COM.APP:ID/SAVE" -> "com.app:id/save"
      [] OTHER -> s

\* re.sub(r"\s+", " ", s).strip() on the attribute values of the model
squeeze(s) ==
    CASE s = "save  as" -> "save as"
      [] OTHER -> s

\* process_id(s): the part behind ":id/" when s matches id_pattern, s otherwise
process_id(s) ==
    CASE s = "" -> ""
      [] s = "com.app:id/" -> ""
      [] s = "com.app:id/save" -> "save"
      [] s = "com.app:id/saved" -> "saved"
      [] OTHER -> s

\* predictors.attr_equal(a, b, name1, name2); name2 = name1 when name2 is None
attr_equal(a, b, name1, name2) ==
    LET attr_a == strip_lower(a[name1])
        attr_b == strip_lower(b[name2])
    IN /\ attr_a # ""
       /\ attr_b # ""
       /\ squeeze(attr_a) = squeeze(attr_b)

\* predictors.attr_like(a, b, name1, name2); name2 = name1 when name2 is None
attr_like(a, b, name1, name2) ==
    LET attr_a == IF name1 = "resource-id" THEN process_id(strip_lower(a[name1]))
                  ELSE strip_lower(a[name1])
        attr_b == IF name2 = "resource-id" THEN process_id(strip_lower(b[name2]))
                  ELSE strip_lower(b[name2])
    IN /\ attr_a # ""
       /\ attr_b # ""
       /\ Similar(squeeze(attr_a), squeeze(attr_b))

\* predictors.is_match(a, b, strict=strict)
is_match(a, b, strict) ==
    LET equal_num == Cardinality({ k \in {"resource-id", "content-desc", "text"} :
                                     attr_equal(a, b, k, k) }) IN
    IF strict THEN equal_num >= 2 ELSE equal_num >= 1

\* predictors.is_like(a, b, strict)
is_like(a, b, strict) ==
    \/ /\ a["text"] = "" /\ b["text"] = ""
       /\ a["content-desc"] = "" /\ b["content-desc"] = ""
       /\ attr_like(a, b, "resource-id", "resource-id")
       /\ a["class"] = b["class"]
       /\ a["class"] = "android.widget.EditText"
    \/ /\ attr_like(a, b, "resource-id", "resource-id") \/ ~strict
       /\ \/ attr_like(a, b, "text", "text")
          \/ attr_like(a, b, "content-desc", "content-desc")
          \/ attr_like(a, b, "text", "content-desc")
          \/ attr_like(a, b, "content-desc", "text")
    \/ /\ \/ attr_equal(a, b, "text", "content-desc")
          \/ attr_equal(a, b, "content-desc", "text")
       /\ a["class"] # "android.widget.RadioButton"
       /\ b["class"] # "android.widget.RadioButton"

\* The predictor match_layout hands to a phase, applied to two nodes
predictor(which, x, y) ==
    CASE which = "is_match" -> is_match(Attrib(x), Attrib(y), TRUE)
      [] which = "is_like" -> is_like(Attrib(x), Attrib(y), TRUE)
      [] which = "is_match_loose" -> is_match(Attrib(x), Attrib(y), FALSE)
      [] which = "is_like_loose" -> is_like(Attrib(x), Attrib(y), FALSE)

\* Layout(xml, png) of one side; png is "empty", "bad" (bytes that are not an
\* image) or "ok"
Layout(side, nodes, png) == [side |-> side, nodes |-> nodes, png |-> png]

\* Layout.children
children(l) == l.nodes

\* The list container of the layout's tree
list_of(l) == IF l.side = "old" THEN 90 ELSE 190

\* The container of row r in the layout's tree
row_of(l, r) == list_of(l) + r

\* The rows of the list that hold a leaf
rows(l) == { row_of(l, RowOf(n)) : n \in { m \in l.nodes : RowOf(m) # 0 } }

\* Layout.parents after compress_parents: the rows, and the list unless a
\* single row is its only child
parents(l) == rows(l) \cup (IF Cardinality(rows(l)) > 1 THEN {list_of(l)} ELSE {})

\* layout.get_list_items: the group of children that share n's non-empty
\* resource-id, when there is more than one
list_group(l, n) ==
    LET group == { m \in l.nodes : Attrib(m)["resource-id"] = Attrib(n)["resource-id"] } IN
    IF Attrib(n)["resource-id"] # "" /\ Cardinality(group) > 1 THEN group ELSE {}

\* The children that are list items
list_items(l) == { n \in l.nodes : list_group(l, n) # {} }

\* layout.get_non_unique over every group: items whose id, desc and text
\* equal another item's
non_unique(l) ==
    { n \in list_items(l) :
        \E m \in list_group(l, n) \ {n} :
            \A k \in {"resource-id", "content-desc", "text"} :
                Attrib(m)[k] = Attrib(n)[k] }

\* layout.get_non_overlap for one item: it climbs while the next parent
\* overlaps no other item's parent
largest_non_overlap(l, n) ==
    LET others == list_group(l, n) \ {n} IN
    IF RowOf(n) = 0 \/ (\E m \in others : RowOf(m) = RowOf(n)) THEN n
    ELSE IF \E m \in others : RowOf(m) # 0 THEN row_of(l, RowOf(n))
    ELSE list_of(l)

\* Layout.non_overlap
non_overlap(l) == [n \in list_items(l) |-> largest_non_overlap(l, n)]

\* Layout.unique_children: children whose class no other child has
unique_children(l) ==
    { n \in l.nodes : \A m \in l.nodes \ {n} : Attrib(m)["class"] # Attrib(n)["class"] }

\* parent.iter("node") restricted to Layout.children
children_under(parent, l) ==
    IF parent = list_of(l) THEN { n \in l.nodes : RowOf(n) # 0 }
    ELSE IF parent \in rows(l) THEN { n \in l.nodes : row_of(l, RowOf(n)) = parent }
    ELSE {parent} \cap l.nodes

\* The orders in which a for loop can visit a set
Orders(S) == { f \in [1 .. Cardinality(S) -> S] : Range(f) = S }

\* The elements of a set in document order
RECURSIVE Sorted(_)
Sorted(S) ==
    IF S = {} THEN <<>>
    ELSE LET m == CHOOSE x \in S : \A y \in S : x <= y IN <<m>> \o Sorted(S \ {m})

\* The elements of a visiting order that belong to S, in that order
RECURSIVE Restrict(_, _)
Restrict(ord, S) ==
    IF ord = <<>> THEN <<>>
    ELSE (IF Head(ord) \in S THEN <<Head(ord)>> ELSE <<>>) \o Restrict(Tail(ord), S)

\* The working state of the phases: result.matched, info.matched,
\* info.matched_parents, the commits made so far and the update flag
Work(matched, im, mp, cm) ==
    [matched |-> matched, possible |-> <<>>, im |-> im, parents |-> mp,
     commits |-> cm, update |-> FALSE]

\* dict[k] = v
put(d, k, v) == (k :> v) @@ d

\* info.matched_parents[k] = v; a dict keeps the position of a key it has
RECURSIVE put_pair(_, _, _)
put_pair(mp, k, v) ==
    IF mp = <<>> THEN << <<k, v>> >>
    ELSE IF Head(mp)[1] = k THEN << <<k, v>> >> \o Tail(mp)
    ELSE <<Head(mp)>> \o put_pair(Tail(mp), k, v)

\* (n for n in S if n not in info.matched), the filter dropped
unmatched_all(S, im) == S

\* (n for n in S if n not in info.matched)
unmatched(S, im) == S \ im

\* candidates[0]
first_of(found) == CHOOSE n \in found : TRUE

\* result.matched[old] = candidate alone, info.matched left as it was
commit_unrecorded(st, phase, o, n, ncand) ==
    [st EXCEPT !.matched = put(@, o, n),
               !.commits = @ \cup {[phase |-> phase, old |-> o, new |-> n,
                                   ncand |-> ncand]}]

\* result.matched[old] = candidate; info.matched.update([old, candidate]),
\* with the phase and the number of found the commit was made on
commit(st, phase, o, n, ncand) ==
    [st EXCEPT !.matched = put(@, o, n),
               !.im = @ \cup {o, n},
               !.commits = @ \cup {[phase |-> phase, old |-> o, new |-> n,
                                   ncand |-> ncand]}]

\* The loop of match_sibling over the old siblings
RECURSIVE sibling_loop(_, _, _)
sibling_loop(old_siblings, new_siblings, st) ==
    IF old_siblings = <<>> THEN st
    ELSE LET old_sibling == Head(old_siblings)
             found == { n \in unmatched(new_siblings, st.im) :
                               is_match(Attrib(old_sibling), Attrib(n), FALSE) }
             st1 == IF old_sibling \notin st.im /\ Cardinality(found) = 1
                    THEN commit(st, "sibling", old_sibling, first_of(found), 1)
                    ELSE st
         IN sibling_loop(Tail(old_siblings), new_siblings, st1)

\* match_sibling(old, new, info, result); ord is the order of the old children
match_sibling(o, n, ord, st) ==
    IF o \notin DOMAIN non_overlap(old) \/ n \notin DOMAIN non_overlap(new) THEN st
    ELSE LET old_parent == non_overlap(old)[o]
             new_parent == non_overlap(new)[n]
             old_siblings == { k \in DOMAIN non_overlap(old) :
                                 non_overlap(old)[k] = old_parent /\ k # o }
             new_siblings == { k \in DOMAIN non_overlap(new) :
                                 non_overlap(new)[k] = new_parent /\ k # n }
         IN sibling_loop(Restrict(ord, old_siblings), new_siblings,
                         [st EXCEPT !.parents = put_pair(@, old_parent, new_parent)])

\* len(found) >= 1
sure_any(found) == found # {}

\* len(found) == 1
sure_unique(found) == Cardinality(found) = 1

\* info.new.children - info.new.non_unique
new_candidates == children(new) \ non_unique(new)

\* info.old.children - info.old.non_unique
old_candidates == children(old) \ non_unique(old)

\* The found match_sure collects for an old child
sure_candidates(which, old_child, im) ==
    { n \in unmatched(new_candidates, im) : predictor(which, old_child, n) }

\* One pass of the for loop of match_sure
RECURSIVE sure_pass(_, _, _, _)
sure_pass(which, todo, ord, st) ==
    IF todo = <<>> THEN st
    ELSE LET old_child == Head(todo)
             found == sure_candidates(which, old_child, st.im)
             st1 == IF old_child \in unmatched(old_candidates, st.im)
                       /\ sure_unique(found)
                    THEN match_sibling(old_child, first_of(found), ord,
                             [commit(st, which, old_child, first_of(found),
                                     Cardinality(found))
                                EXCEPT !.update = TRUE])
                    ELSE st
         IN sure_pass(which, Tail(todo), ord, st1)

\* The classes sift_match leaves alone
exclude_set ==
    {"android.widget.CheckBox", "android.widget.EditText", "android.widget.Switch"}

\* The children sift_match looks at: no text and a class outside exclude_set
sift_eligible(S, im) ==
    { n \in unmatched(S, im) :
        Attrib(n)["text"] = "" /\ Attrib(n)["class"] \notin exclude_set }

\* One pass of the for loop of sift_match; <<o, n>> is in matched_points when
\* o holds key points and at least 0.6 of their matches lie inside n
RECURSIVE sift_pass(_, _)
sift_pass(todo, st) ==
    IF todo = <<>> THEN st
    ELSE LET old_child == Head(todo)
             found == { n \in sift_eligible(children(new), st.im) :
                               <<old_child, n>> \in matched_points }
             st1 == IF old_child \in sift_eligible(children(old), st.im)
                       /\ Cardinality(found) = 1
                    THEN [commit(st, "sift", old_child, first_of(found), 1)
                            EXCEPT !.update = TRUE]
                    ELSE st
         IN sift_pass(Tail(todo), st1)

\* The loop of match_parents; done is its local matched_parents set
RECURSIVE parents_loop(_, _, _, _)
parents_loop(which, todo, done, mp) ==
    IF todo = <<>> THEN mp
    ELSE LET old_parent == Head(todo)
             found == { n \in parents(new) \ done : predictor(which, old_parent, n) }
             hit == old_parent \notin done /\ Cardinality(found) = 1
         IN parents_loop(which, Tail(todo),
                         IF hit THEN done \cup {old_parent, first_of(found)} ELSE done,
                         IF hit THEN put_pair(mp, old_parent, first_of(found)) ELSE mp)

\* The inner loop of optimize_match over the children of one old parent
RECURSIVE optimize_children(_, _, _, _)
optimize_children(which, old_children, new_children, st) ==
    IF old_children = <<>> THEN st
    ELSE LET old_child == Head(old_children)
             found == { n \in unmatched(new_children, st.im) :
                               predictor(which, old_child, n) }
             st1 == IF old_child \in unmatched({old_child}, st.im)
                       /\ Cardinality(found) = 1
                    THEN commit(st, "optimize", old_child, first_of(found), 1)
                    ELSE st
         IN optimize_children(which, Tail(old_children), new_children, st1)

\* The outer loop of optimize_match over info.matched_parents.items()
RECURSIVE optimize_loop(_, _, _)
optimize_loop(which, pairs, st) ==
    IF pairs = <<>> THEN st
    ELSE optimize_loop(which, Tail(pairs),
             optimize_children(which,
                               Sorted(children_under(Head(pairs)[1], old)),
                               children_under(Head(pairs)[2], new), st))

\* The loop of unique_match
RECURSIVE unique_loop(_, _)
unique_loop(todo, st) ==
    IF todo = <<>> THEN st
    ELSE LET old_child == Head(todo)
             found == { n \in unmatched(unique_children(new), st.im) :
                               /\ attr_equal(Attrib(old_child), Attrib(n), "class", "class")
                               /\ Attrib(old_child)["class"] \in {"android.widget.EditText"} }
             st1 == IF old_child \in unmatched({old_child}, st.im)
                       /\ Cardinality(found) = 1
                    THEN commit(st, "unique", old_child, first_of(found), 1)
                    ELSE st
         IN unique_loop(Tail(todo), st1)

\* get_unique_possible(attr, old, found): the only candidate with old's
\* attribute and class, as a set of at most one element
get_unique_possible(attr, old_child, found) ==
    LET attr_candidates == { c \in found :
                               /\ Attrib(c)[attr] = Attrib(old_child)[attr]
                               /\ Attrib(c)["class"] = Attrib(old_child)["class"] } IN
    IF Attrib(old_child)[attr] # "" /\ Cardinality(attr_candidates) = 1
    THEN attr_candidates ELSE {}

\* The candidate match_possible promotes to a match, as a set of at most one
promoted(old_child, found) ==
    IF get_unique_possible("text", old_child, found) # {}
    THEN get_unique_possible("text", old_child, found)
    ELSE IF get_unique_possible("content-desc", old_child, found) # {}
    THEN get_unique_possible("content-desc", old_child, found)
    ELSE IF /\ get_unique_possible("resource-id", old_child, found) # {}
            /\ old_child \notin DOMAIN non_overlap(old)
    THEN get_unique_possible("resource-id", old_child, found)
    ELSE {}

\* The loop of match_possible; st.possible is result.possible
RECURSIVE possible_loop(_, _, _)
possible_loop(which, todo, st) ==
    IF todo = <<>> THEN st
    ELSE LET old_child == Head(todo)
             found == { n \in unmatched(children(new), st.im) :
                               predictor(which, old_child, n) }
             st1 == IF old_child \notin unmatched({old_child}, st.im) \/ found = {}
                    THEN st
                    ELSE IF promoted(old_child, found) # {}
                    THEN commit(st, "possible", old_child,
                                first_of(promoted(old_child, found)),
                                Cardinality(found))
                    ELSE [st EXCEPT !.possible = put(@, old_child, found)]
         IN possible_loop(which, Tail(todo), st1)

\* The union of result.possible.values()
new_possible(res) == UNION { res.possible[k] : k \in DOMAIN res.possible }

\* result.old_not_matched, result.possible left out of the test
old_not_matched_of_matched(res) == children(old) \ DOMAIN res.matched

\* result.old_not_matched as set_not_match computes it
old_not_matched(res) ==
    { x \in children(old) : x \notin DOMAIN res.matched /\ x \notin DOMAIN res.possible }

\* result.new_not_matched as set_not_match computes it
new_not_matched(res) ==
    { x \in children(new) : x \notin Range(res.matched) /\ x \notin new_possible(res) }

\* match.threshold = 0.8 as a fraction
threshold == <<4, 5>>

\* result.score as set_match_score computes it, as <<numerator, denominator>>
match_score(res) ==
    LET matched_num == Cardinality(DOMAIN res.matched)
        possible_num == Cardinality(DOMAIN res.possible)
        not_match == Cardinality(res.old_not_matched)
        total == matched_num + possible_num + not_match
    IN IF total # 0 THEN <<matched_num + possible_num, total>> ELSE <<0, 1>>

\* score >= threshold
at_least(score, bound) == score[1] * bound[2] >= bound[1] * score[2]

\* The screenshots: no bytes, bytes that are no image, an image
Pngs == {"empty", "bad", "ok"}

\* The node sets of the small old screens
OldScreens == { ns \in SUBSET OldPool : Cardinality(ns) <= MaxNodes }

\* The node sets of the small new screens
NewScreens == { ns \in SUBSET NewPool : Cardinality(ns) <= MaxNodes }

\* Two layouts built from the same XML with a single leaf
SamePairs == { <<{n}, {Twin(n)}>> : n \in OldPool \cup {BlankText} }

\* The pairs of screens match_layout is given: every pair of small screens,
\* the list screen before and after the update, and the unchanged screens
ScreenPairs ==
    (OldScreens \X NewScreens) \cup {<<OldListScreen, NewListScreen>>} \cup SamePairs

\* match_layout(old, new) is entered: result = Result()
MatchInit ==
    /\ RepairIdle
    /\ script = <<>>
    /\ PerformIdle
    /\ PureIdle
    /\ \E pair \in ScreenPairs, old_png \in Pngs, new_png \in Pngs :
         /\ old = Layout("old", pair[1], old_png)
         /\ new = Layout("new", pair[2], new_png)
    /\ matched_points = {}
    /\ info_matched = {}
    /\ matched_parents = <<>>
    /\ match_result = NoResult
    /\ mpc = "init"
    /\ order = <<>>
    /\ passes = 0
    /\ commits = {}

\* What a phase starts from
work == Work(match_result.matched, info_matched, matched_parents, commits)

\* The variables match_layout never touches
match_frame ==
    UNCHANGED <<input, optimize_explore, pretest, pc, attrs_set, session, screen,
                stepped_back, explore_vars, recover_vars, exit_code, written,
                history, script, perform_vars, old, new, pure_vars>>

\* A phase hands its working state back
Store(st) ==
    /\ info_matched' = st.im
    /\ matched_parents' = st.parents
    /\ commits' = st.commits
    /\ match_result' = [match_result EXCEPT !.matched = st.matched,
                                            !.possible = st.possible]

\* info = MatchInfo(old, new): key points are matched when both screenshots
\* hold bytes; cv2.imdecode gives None for bytes that are no image and
\* img.shape then raises
PostInit ==
    /\ mpc = "init"
    /\ IF old.png = "empty" \/ new.png = "empty"
       THEN matched_points' = {} /\ mpc' = "sure_match"
       ELSE IF old.png = "bad" \/ new.png = "bad"
       THEN matched_points' = {} /\ mpc' = "raised"
       ELSE /\ matched_points' \in SUBSET (sift_eligible(children(old), {})
                                            \X sift_eligible(children(new), {}))
            /\ mpc' = "sure_match"
    /\ UNCHANGED <<info_matched, matched_parents, match_result, order, passes, commits>>
    /\ match_frame

\* One pass of the while loop of match_sure(info, result, predictor); the
\* first pass fixes the order in which the set of old children is visited
MatchSure(at, which, next) ==
    /\ mpc = at
    /\ \E ord \in (IF passes = 0 THEN Orders(children(old)) ELSE {order}) :
         LET st == sure_pass(which, Restrict(ord, old_candidates), ord, work) IN
         /\ Store(st)
         /\ IF st.update
            THEN mpc' = mpc /\ passes' = passes + 1 /\ order' = ord
            ELSE mpc' = next /\ passes' = 0 /\ order' = <<>>
    /\ UNCHANGED matched_points
    /\ match_frame

\* One pass of the while loop of sift_match(info, result)
SiftMatch ==
    /\ mpc = "sift"
    /\ \E ord \in (IF passes = 0 THEN Orders(children(old)) ELSE {order}) :
         LET st == sift_pass(ord, work) IN
         /\ Store(st)
         /\ IF st.update
            THEN mpc' = mpc /\ passes' = passes + 1 /\ order' = ord
            ELSE mpc' = "parents" /\ passes' = 0 /\ order' = <<>>
    /\ UNCHANGED matched_points
    /\ match_frame

\* match_parents(info, is_match non-strict)
MatchParents ==
    /\ mpc = "parents"
    /\ \E ord \in Orders(parents(old)) :
         matched_parents' = parents_loop("is_match_loose", ord, {}, matched_parents)
    /\ mpc' = "optimize"
    /\ UNCHANGED <<matched_points, info_matched, match_result, order, passes, commits>>
    /\ match_frame

\* optimize_match(info, result, is_like non-strict)
OptimizeMatch ==
    /\ mpc = "optimize"
    /\ Store(optimize_loop("is_like_loose", matched_parents, work))
    /\ mpc' = "unique"
    /\ UNCHANGED <<matched_points, order, passes>>
    /\ match_frame

\* unique_match(info, result)
UniqueMatch ==
    /\ mpc = "unique"
    /\ \E ord \in Orders(unique_children(old)) : Store(unique_loop(ord, work))
    /\ mpc' = "possible"
    /\ UNCHANGED <<matched_points, order, passes>>
    /\ match_frame

\* match_possible(info, result, is_match non-strict)
MatchPossible ==
    /\ mpc = "possible"
    /\ \E ord \in Orders(children(old)) :
         Store(possible_loop("is_match_loose", ord, work))
    /\ mpc' = "not_match"
    /\ UNCHANGED <<matched_points, order, passes>>
    /\ match_frame

\* set_not_match(info, result)
SetNotMatch ==
    /\ mpc = "not_match"
    /\ match_result' = [match_result EXCEPT
                          !.old_not_matched = old_not_matched(match_result),
                          !.new_not_matched = new_not_matched(match_result)]
    /\ mpc' = "score"
    /\ UNCHANGED <<matched_points, info_matched, matched_parents, order, passes, commits>>
    /\ match_frame

\* set_match_score(result); return result
SetMatchScore ==
    /\ mpc = "score"
    /\ match_result' = [match_result EXCEPT
                          !.score = match_score(match_result),
                          !.is_match = at_least(match_score(match_result), threshold)]
    /\ mpc' = "done"
    /\ UNCHANGED <<matched_points, info_matched, matched_parents, order, passes, commits>>
    /\ match_frame

\* The steps of match_layout in the order of its body
LayoutNext ==
    \/ PostInit
    \/ MatchSure("sure_match", "is_match", "sure_like")
    \/ MatchSure("sure_like", "is_like", "sift")
    \/ SiftMatch
    \/ MatchParents
    \/ OptimizeMatch
    \/ UniqueMatch
    \/ MatchPossible
    \/ SetNotMatch
    \/ SetMatchScore

\* match_layout on every pair of screens
SpecMatch == MatchInit /\ [][LayoutNext]_vars

\* match_layout has returned its result
LayoutMatched == mpc = "done"

\* Some commit of the given phase was made
Committed(phase) == \E c \in commits : c.phase = phase

\* C16: in every result of match_layout no new node is both a value of
\* matched and a member of a set in possible, whatever the order in which the
\* possible-match phase visits the old children.
C16_MatchedDisjointFromPossible ==
    LayoutMatched =>
        Range(match_result.matched) \cap new_possible(match_result) = {}

\* C17: after every phase result.matched is one-to-one, its keys are old
\* children and its values are new children, whichever phase made the commits.
C17_MatchedOneToOne ==
    LET m == match_result.matched IN
    /\ \A a, b \in DOMAIN m : m[a] = m[b] => a = b
    /\ DOMAIN m \subseteq children(old)
    /\ Range(m) \subseteq children(new)
    /\ \A c \in commits : c.old \in DOMAIN m /\ m[c.old] = c.new

\* A result whose pairs were committed by sure match and by sibling
\* propagation, a new node having been open to two old nodes
C17_Witness ==
    /\ LayoutMatched
    /\ Committed("is_match")
    /\ Committed("sibling")
    /\ Cardinality(DOMAIN match_result.matched) >= 4

\* C18: score is (|matched| + |possible|) over that sum plus
\* |old_not_matched|, 0 when the denominator is 0; the denominator is
\* |old.children|, the score lies between 0 and 1, and is_match holds exactly
\* when 5 * (|matched| + |possible|) >= 4 * |old.children| and old.children
\* is not empty.
C18_Score ==
    LayoutMatched =>
        LET m == Cardinality(DOMAIN match_result.matched)
            p == Cardinality(DOMAIN match_result.possible)
            n == Cardinality(match_result.old_not_matched)
            score == match_result.score
        IN /\ m + p + n = Cardinality(children(old))
           /\ score = IF m + p + n = 0 THEN <<0, 1>> ELSE <<m + p, m + p + n>>
           /\ 0 <= score[1] /\ score[1] <= score[2]
           /\ match_result.is_match <=>
                /\ 5 * (m + p) >= 4 * Cardinality(children(old))
                /\ children(old) # {}

\* A result on the threshold: four of five old children matched or possible
C18_Witness ==
    /\ LayoutMatched
    /\ match_result.score = <<4, 5>>
    /\ match_result.is_match
    /\ match_result.old_not_matched # {}

\* No unmatched old child outside old.non_unique has exactly one unmatched
\* new child outside new.non_unique that satisfies the predictor
FixedPoint(which) ==
    \A o \in (children(old) \ non_unique(old)) \ info_matched :
        Cardinality({ n \in (children(new) \ non_unique(new)) \ info_matched :
                        predictor(which, o, n) }) # 1

\* C19: match_sure ends after finitely many passes, commits a pair only when
\* the old child had exactly one unmatched new candidate satisfying the
\* predictor at that moment, and leaves a fixed point behind.
C19_MatchSure ==
    /\ mpc \in {"sure_match", "sure_like"} => passes <= Cardinality(children(old))
    /\ \A c \in commits : c.phase \in {"is_match", "is_like"} => c.ncand = 1
    /\ mpc = "sure_like" /\ passes = 0 => FixedPoint("is_match")
    /\ mpc = "sift" /\ passes = 0 => FixedPoint("is_like")

\* match_sure has returned after a pass that committed a pair another old
\* child had been a second candidate short of
C19_Witness ==
    /\ mpc = "sift"
    /\ passes = 0
    /\ \E c, d \in commits :
         /\ c.phase = "is_like" /\ d.phase = "is_like"
         /\ c.old # d.old
         /\ predictor("is_like", c.old, d.new)

\* C20: with a screenshot that is empty or no image match_layout still
\* returns a result, the SIFT phase commits no pair and no error escapes.
C20_BadScreenshotSkipsSift ==
    old.png # "ok" \/ new.png # "ok" =>
        /\ mpc # "raised"
        /\ ~Committed("sift")

\* The new layout was built from the XML of the old one
SameXml == new.nodes = { Twin(n) : n \in old.nodes }

\* C21: two layouts built from the same XML with exactly one child, whose
\* text is not empty, give matched with that one pair, empty possible and
\* old_not_matched, score 1.0 and is_match true.
C21_IdenticalSingleChild ==
    /\ LayoutMatched
    /\ SameXml
    /\ Cardinality(children(old)) = 1
    /\ \A n \in children(old) : Attrib(n)["text"] # ""
    => /\ \A n \in children(old) : match_result.matched = (n :> Twin(n))
       /\ DOMAIN match_result.possible = {}
       /\ match_result.old_not_matched = {}
       /\ match_result.score = <<1, 1>>
       /\ match_result.is_match

\* ------------------------------------------------------------------ Layout

\* most nodes of a layout tree below its hierarchy element
MaxTree == 2

\* The attributes of an XML node
Elem(class, rid, desc, text, package, clickable) ==
    ("class" :> class) @@ ("resource-id" :> rid) @@ ("content-desc" :> desc)
    @@ ("text" :> text) @@ ("package" :> package) @@ ("clickable" :> clickable)

\* The nodes a dump is made of: a text, a clickable id, a list, a node of
\* Google's, a key of the input method, a bare view, a status bar item and a
\* described container
Elems ==
    { Elem("android.view.View", "", "", "save", "com.app", "false"),
      Elem("android.view.View", "com.app:id/save", "", "", "com.app", "true"),
      Elem("android.widget.ListView", "com.app:id/list", "", "", "com.app", "false"),
      Elem("android.view.View", "com.google.android.gms:id/x", "", "save", "com.app", "false"),
      Elem("android.view.View", "com.google.android.inputmethod.latin:id/key", "", "",
           "com.app", "true"),
      Elem("android.view.View", "", "", "", "com.app", "false"),
      Elem("android.view.View", "", "", "save", "com.android.systemui", "false"),
      Elem("android.widget.LinearLayout", "", "menu", "", "com.app", "false") }

\* A bounds attribute bound_pattern does not match
Malformed == <<>>

\* The bounds attributes: "[x0,y0][x1,y1]" as <<x0, y0, x1, y1>>, among them
\* one whose second corner lies left of the first and one of no width
BoundsValues ==
    { <<0, 0, 20, 20>>, <<30, 0, 50, 20>>, <<10, 10, 5, 20>>, <<0, 0, 0, 20>>, Malformed }

\* The resource-ids of the model that start with "com.google.android"
GoogleIds ==
    {"com.google.android.gms:id/x", "com.google.android.inputmethod.latin:id/key"}

\* No resource-id is taken for one of Google's
starts_never(rid) == FALSE

\* s.startswith("com.google.android") on the resource-ids of the model
starts_google(rid) == rid \in GoogleIds

\* s.startswith("com.google.android.inputmethod") on the resource-ids of the model
starts_inputmethod(rid) == rid = "com.google.android.inputmethod.latin:id/key"

\* A node of the parsed tree: its parent (0 is the hierarchy element), its
\* attributes, and whether remove_node took it out of the tree
XmlNode(parent, elem, bounds) ==
    [parent |-> parent, attrib |-> elem @@ ("bounds" :> bounds), gone |-> FALSE]

\* Node i of t or one of its ancestors is in S
RECURSIVE within(_, _, _)
within(t, i, S) == i # 0 /\ (i \in S \/ within(t, t[i].parent, S))

\* The trees fromstring(xml) returns: every node follows its parent, and a
\* node's parent is the node before it or an ancestor of that node
Trees ==
    UNION { { t \in [1 .. n -> { XmlNode(q, e, b) : q \in 0 .. (MaxTree - 1),
                                                   e \in Elems, b \in BoundsValues }] :
                \A i \in 1 .. n :
                    /\ t[i].parent < i
                    /\ t[i].parent = 0 \/ within(t, i - 1, {t[i].parent}) } :
            n \in 0 .. MaxTree }

\* root.iter("node")
iter(t) == { i \in DOMAIN t : ~t[i].gone }

\* list(node): the element children
elements(t, i) == { j \in iter(t) : t[j].parent = i }

\* node.get(k, default)
get(t, i, k, default) == IF k \in DOMAIN t[i].attrib THEN t[i].attrib[k] ELSE default

\* remove_node(root, package == "com.android.systemui"): the children of the
\* hierarchy element that satisfy the predictor leave the tree
remove_node(t) ==
    LET remove_list == { i \in DOMAIN t : /\ t[i].parent = 0
                                          /\ get(t, i, "package", "") = "com.android.systemui" }
    IN [i \in DOMAIN t |-> IF within(t, i, remove_list) THEN [t[i] EXCEPT !.gone = TRUE]
                           ELSE t[i]]

\* The attributes denote_index counts
Indexed == {"class", "resource-id", "content-desc", "text"}

\* c[value] of a defaultdict(int)
counted(c, key) == IF key \in DOMAIN c THEN c[key] ELSE 0

\* The name of the index attribute of k
index_of(k) == k \o "-index"

\* The loop of denote_index over root.iter("node")
RECURSIVE denote_index_loop(_, _, _)
denote_index_loop(t, todo, counters) ==
    IF todo = <<>> THEN t
    ELSE LET i == Head(todo)
             full == { k \in Indexed : get(t, i, k, "") # "" }
             marks == [x \in { index_of(k) : k \in Indexed } |->
                         LET k == CHOOSE k \in Indexed : index_of(k) = x IN
                         IF k \in full THEN counted(counters, <<k, get(t, i, k, "")>>)
                         ELSE -1]
             counted_up == [key \in DOMAIN counters \cup { <<k, get(t, i, k, "")>> : k \in full } |->
                              IF key[1] \in full /\ key[2] = get(t, i, key[1], "")
                              THEN counted(counters, key) + 1
                              ELSE counted(counters, key)]
         IN IF starts_google(get(t, i, "resource-id", ""))
            THEN denote_index_loop(t, Tail(todo), counters)
            ELSE denote_index_loop([t EXCEPT ![i].attrib = marks @@ @],
                                   Tail(todo), counted_up)

\* element.coordinates(node): the four numbers, or zeros when bound_pattern
\* does not match
coordinates(bounds) == IF bounds = Malformed THEN <<0, 0, 0, 0>> ELSE bounds

\* denote_bounds(root): x, y, w and h for every node
denote_bounds(t) ==
    [i \in DOMAIN t |->
        IF t[i].gone THEN t[i]
        ELSE LET c == coordinates(get(t, i, "bounds", <<0, 0, 0, 0>>)) IN
             [t[i] EXCEPT !.attrib = ("x" :> c[1]) @@ ("y" :> c[2])
                                     @@ ("w" :> c[3] - c[1]) @@ ("h" :> c[4] - c[2]) @@ @]]

\* predictors.is_list(node)
is_list(t, i) ==
    get(t, i, "class", "") \in
        {"android.view.ViewGroup", "android.widget.GridView", "android.widget.ListView",
         "android.widget.FrameLayout", "android.widget.GridLayout",
         "android.widget.LinearLayout", "android.widget.RelativeLayout",
         "androidx.recyclerview.widget.RecyclerView"}

\* The tests of is_child behind the one for element children
is_child_or_inner(t, i) ==
    /\ ~starts_inputmethod(get(t, i, "resource-id", ""))
    /\ get(t, i, "w", 1) # 0 /\ get(t, i, "h", 1) # 0
    /\ 10 * get(t, i, "w", 0) * get(t, i, "h", 0) < 1080 * 1920 * 6
    /\ ~is_list(t, i)
    /\ \/ get(t, i, "text", "None") # ""
       \/ get(t, i, "content-desc", "None") # ""
       \/ get(t, i, "resource-id", "None") # ""
       \/ get(t, i, "w", 0) >= 15 /\ get(t, i, "h", 0) >= 15

\* predictors.is_child(node)
is_child(t, i) == elements(t, i) = {} /\ is_child_or_inner(t, i)

\* predictors.is_parent(node)
is_parent(t, i) ==
    /\ get(t, i, "w", 1) # 0 /\ get(t, i, "h", 1) # 0
    /\ get(t, i, "resource-id", "") # "" \/ get(t, i, "content-desc", "") # ""
    /\ elements(t, i) # {} \/ is_list(t, i)

\* predictors.is_cover(a, b): the centre of b lies inside a
is_cover(a, b) ==
    LET ca == coordinates(a)
        cb == coordinates(b)
    IN /\ 2 * ca[1] <= cb[1] + cb[3] /\ cb[1] + cb[3] <= 2 * ca[3]
       /\ 2 * ca[2] <= cb[2] + cb[4] /\ cb[2] + cb[4] <= 2 * ca[4]

\* min(x, y)
min(x, y) == IF x <= y THEN x ELSE y

\* max(x, y)
max(x, y) == IF x >= y THEN x ELSE y

\* predictors.is_overlap(a, b) on the bounds of the two nodes
is_overlap(a, b) ==
    LET ca == coordinates(a)
        cb == coordinates(b)
        xmin == min(ca[3], ca[3])
        xmax == max(ca[1], cb[1])
        ymin == min(ca[4], cb[4])
        ymax == max(ca[2], cb[2])
    IN xmin > xmax /\ ymin > ymax

\* The bounds attribute of node i
bounds_of(t, i) == get(t, i, "bounds", <<0, 0, 0, 0>>)

\* The loop of layout.get_valid_node over root.iter("node")
RECURSIVE valid_loop(_, _, _)
valid_loop(t, todo, valid) ==
    IF todo = <<>> THEN valid
    ELSE LET n == Head(todo)
             uncovered ==
                 IF is_child(t, n) /\ get(t, n, "clickable", "None") = "true"
                 THEN valid \ { x \in valid : is_child(t, x)
                                              /\ is_cover(bounds_of(t, n), bounds_of(t, x)) }
                 ELSE valid
             covered ==
                 /\ is_child(t, n)
                 /\ get(t, n, "clickable", "None") = "false"
                 /\ \E m \in uncovered :
                      /\ is_child(t, m)
                      /\ get(t, m, "clickable", "None") = "true"
                      /\ is_cover(bounds_of(t, m), bounds_of(t, n))
         IN valid_loop(t, Tail(todo), IF covered THEN uncovered ELSE uncovered \cup {n})

\* get_valid_node with a slip: no node is taken out for being covered
get_valid_node_all(t) == iter(t)

\* layout.get_valid_node(root)
get_valid_node(t) == valid_loop(t, Sorted(iter(t)), {})

\* layout.get_children(root)
get_children(t) == { x \in get_valid_node(t) : is_child(t, x) }

\* layout.get_parents(root)
get_parents(t) == { x \in iter(t) : is_parent(t, x) }

\* layout.compress_parents(parents)
compress_parents(t, ps) ==
    ps \ { b \in ps : \E a \in ps : a # b /\ elements(t, b) = {a} }

\* {c: p for p in root.iter("node") for c in p}
child_parent(t) ==
    [c \in { j \in iter(t) : t[j].parent \in iter(t) } |-> t[c].parent]

\* layout.get_unique_children(children)
get_unique_children(t, cs) ==
    { c \in cs : \A d \in cs \ {c} : get(t, d, "class", "") # get(t, c, "class", "") }

\* layout.get_list_items(children): the groups of more than one child with
\* the same resource-id, which is not empty
get_list_items(t, cs) ==
    { group \in { { d \in cs : get(t, d, "resource-id", "") = get(t, c, "resource-id", "") } :
                  c \in cs } :
        /\ \A c \in group : get(t, c, "resource-id", "") # ""
        /\ Cardinality(group) > 1 }

\* One pass of the for loop of get_non_overlap over result.keys()
RECURSIVE climb_pass(_, _, _, _)
climb_pass(t, cpf, todo, res) ==
    IF todo = <<>> THEN res
    ELSE LET child == Head(todo)
             current_parent == res[child]
             climbs ==
                 /\ current_parent \in DOMAIN cpf
                 /\ elements(t, cpf[current_parent]) # {}
                 /\ \A k \in DOMAIN res \ {child} :
                      ~is_overlap(bounds_of(t, cpf[current_parent]), bounds_of(t, res[k]))
         IN climb_pass(t, cpf, Tail(todo),
                       IF climbs THEN [res EXCEPT ![child] = cpf[current_parent]] ELSE res)

\* The while loop of get_non_overlap
RECURSIVE climb(_, _, _, _)
climb(t, cpf, keys, res) ==
    LET after == climb_pass(t, cpf, keys, res) IN
    IF after = res THEN res ELSE climb(t, cpf, keys, after)

\* layout.get_non_overlap(children, cp), the children in the order keys
get_non_overlap(t, cpf, keys) == climb(t, cpf, keys, [c \in Range(keys) |-> c])

\* layout.get_non_unique(children)
get_non_unique(t, group) ==
    { c \in group : \E d \in group \ {c} :
        \A k \in {"resource-id", "content-desc", "text"} : get(t, d, k, "") = get(t, c, k, "") }

\* The trees a Layout is built from
LayoutInit ==
    /\ RepairIdle
    /\ script = <<>>
    /\ PerformIdle
    /\ MatchIdle
    /\ OverlapIdle /\ AttrIdle /\ JsonIdle
    /\ root \in Trees
    /\ fields = NoFields
    /\ lpc = "remove"
    /\ LocateIdle

\* What building a Layout never touches
layout_frame ==
    UNCHANGED <<repair_vars, script, perform_vars, match_vars, overlap_vars, attr_vars,
                json_vars, locate_vars>>

\* preprocess(root): remove_node(...)
RemoveNode ==
    /\ lpc = "remove"
    /\ root' = remove_node(root)
    /\ lpc' = "index"
    /\ UNCHANGED fields
    /\ layout_frame

\* preprocess(root): denote_index(root)
DenoteIndex ==
    /\ lpc = "index"
    /\ root' = denote_index_loop(root, Sorted(iter(root)), <<>>)
    /\ lpc' = "bounds"
    /\ UNCHANGED fields
    /\ layout_frame

\* preprocess(root): denote_bounds(root)
DenoteBounds ==
    /\ lpc = "bounds"
    /\ root' = denote_bounds(root)
    /\ lpc' = "fields"
    /\ UNCHANGED fields
    /\ layout_frame

\* Layout.__post_init__: children, parents, cp and unique_children
SetFields ==
    /\ lpc = "fields"
    /\ fields' = [fields EXCEPT
                    !.children = get_children(root),
                    !.parents = compress_parents(root, get_parents(root)),
                    !.cp = child_parent(root),
                    !.unique_children = get_unique_children(root, get_children(root))]
    /\ lpc' = "list_items"
    /\ UNCHANGED root
    /\ layout_frame

\* Layout.__post_init__: non_overlap and non_unique over the groups of list
\* items, the set of children visited in some order
SetListItems ==
    /\ lpc = "list_items"
    /\ \E ord \in Orders(fields.children) :
         LET groups == get_list_items(root, fields.children)
             all == UNION groups
         IN fields' = [fields EXCEPT
                !.non_overlap =
                    [c \in all |->
                        LET group == CHOOSE g \in groups : c \in g IN
                        get_non_overlap(root, fields.cp, Restrict(ord, group))[c]],
                !.non_unique =
                    UNION { get_non_unique(root, g) : g \in groups }]
    /\ lpc' = "done"
    /\ UNCHANGED root
    /\ layout_frame

\* Layout(xml, png).__post_init__
LayoutBuild == RemoveNode \/ DenoteIndex \/ DenoteBounds \/ SetFields \/ SetListItems

\* Every Layout of the trees
SpecLayout == LayoutInit /\ [][LayoutBuild]_vars

\* Layout.__post_init__ has run to its end
LayoutBuilt == lpc = "done"

\* denote_index has run
Indexes == lpc \in {"bounds", "fields", "list_items", "done"}

\* denote_bounds has run
Preprocessed == lpc \in {"fields", "list_items", "done"}

\* C22: children and parents of a Layout are disjoint and every child is a
\* leaf element.
C22_ChildrenAreLeaves ==
    lpc \in {"list_items", "done"} =>
        /\ fields.children \cap fields.parents = {}
        /\ \A c \in fields.children : elements(root, c) = {}

\* A Layout with a leaf among its children and the leaf's parent among its
\* parents
C22_Witness ==
    /\ LayoutBuilt
    /\ \E c \in fields.children : root[c].parent \in fields.parents

\* C23: cp maps every node of the tree to its parent, the children of the
\* hierarchy element included, so that the way up from a child ends at the
\* hierarchy element.
C23_CpReachesRoot ==
    LayoutBuilt =>
        \A i \in iter(root) : i \in DOMAIN fields.cp /\ fields.cp[i] = root[i].parent

\* C25: after preprocess every node has w >= 0, h >= 0 and x + w, y + h not
\* negative, whatever its bounds attribute.
C25_SizesNotNegative ==
    Preprocessed =>
        \A i \in iter(root) :
            /\ root[i].attrib["w"] >= 0 /\ root[i].attrib["h"] >= 0
            /\ root[i].attrib["x"] + root[i].attrib["w"] >= 0
            /\ root[i].attrib["y"] + root[i].attrib["h"] >= 0

\* The nodes before i in document order that hold v as attribute k
Earlier(i, k, v, counting) ==
    Cardinality({ j \in iter(root) \cap counting : j < i /\ get(root, j, k, "") = v })

\* Node i carries the index of every counted attribute: the number of earlier
\* nodes among counting with the same value, -1 for an empty value
CarriesIndexes(i, counting) ==
    \A k \in Indexed :
        /\ index_of(k) \in DOMAIN root[i].attrib
        /\ root[i].attrib[index_of(k)] =
             IF get(root, i, k, "") # "" THEN Earlier(i, k, get(root, i, k, ""), counting)
             ELSE -1

\* The nodes denote_index passes over
OfGoogle == { i \in iter(root) : get(root, i, "resource-id", "") \in GoogleIds }

\* C26 as stated: after preprocess every node of the tree, those of
\* com.google.android included, carries its four indexes.
C26_EveryNodeIndexed ==
    Indexes => \A i \in iter(root) : CarriesIndexes(i, iter(root))

\* C26: after preprocess every node whose resource-id does not start with
\* com.google.android carries its four indexes, counted among those nodes;
\* the nodes that do carry none.
C26_IndexedUnlessGoogle ==
    Indexes =>
        /\ \A i \in iter(root) \ OfGoogle : CarriesIndexes(i, iter(root) \ OfGoogle)
        /\ \A i \in OfGoogle, k \in Indexed : index_of(k) \notin DOMAIN root[i].attrib

\* A node of Google's comes before a node of the same text, which is indexed 0
C26_Witness ==
    /\ Indexes
    /\ \E i \in OfGoogle, j \in iter(root) \ OfGoogle :
         /\ i < j
         /\ get(root, i, "text", "") = get(root, j, "text", "")
         /\ get(root, j, "text-index", -1) = 0

\* C28: a preprocessed node for which is_child holds has w > 0 and h > 0.
C28_ChildrenHaveSize ==
    Preprocessed =>
        \A i \in iter(root) :
            is_child(root, i) => root[i].attrib["w"] > 0 /\ root[i].attrib["h"] > 0

\* -------------------------------------------------------------- is_overlap

\* largest coordinate of a corner
MaxCoord == 3

\* bounds attributes of rectangles: x0 < x1 and y0 < y1
Rects ==
    { <<x0, y0, x1, y1>> : x0 \in 0 .. MaxCoord, y0 \in 0 .. MaxCoord,
                           x1 \in 0 .. MaxCoord, y1 \in 0 .. MaxCoord } \cap
    { r \in Seq(0 .. MaxCoord) : Len(r) = 4 /\ r[1] < r[3] /\ r[2] < r[4] }

\* Two nodes with rectangles for bounds
OverlapInit ==
    /\ RepairIdle
    /\ script = <<>>
    /\ PerformIdle
    /\ MatchIdle
    /\ LayoutIdle /\ AttrIdle /\ JsonIdle
    /\ rect_a \in Rects
    /\ rect_b \in Rects
    /\ overlap_ret = "None"

\* is_overlap(a, b) is called
IsOverlap ==
    /\ overlap_ret = "None"
    /\ overlap_ret' = IF is_overlap(rect_a, rect_b) THEN "True" ELSE "False"
    /\ UNCHANGED <<rect_a, rect_b, repair_vars, script, perform_vars, match_vars,
                   layout_vars, attr_vars, json_vars>>

\* The only step
OverlapNext == IsOverlap

\* is_overlap on every pair of rectangles
SpecOverlap == OverlapInit /\ [][OverlapNext]_vars

\* The two rectangles share points on the x axis, and on the y axis
Intersect ==
    /\ min(rect_a[3], rect_b[3]) > max(rect_a[1], rect_b[1])
    /\ min(rect_a[4], rect_b[4]) > max(rect_a[2], rect_b[2])

\* C24: is_overlap(a, b) is true exactly when the rectangles intersect on
\* both axes; it is symmetric, and rectangles disjoint on the x axis never
\* overlap.
C24_OverlapIsIntersection ==
    overlap_ret # "None" =>
        /\ overlap_ret = "True" <=> Intersect
        /\ is_overlap(rect_a, rect_b) <=> is_overlap(rect_b, rect_a)
        /\ rect_a[3] <= rect_b[1] \/ rect_b[3] <= rect_a[1] => overlap_ret = "False"

\* ---------------------------------------------------- attr_equal, attr_like

\* The attribute names the predictors compare
AttrNames == {"resource-id", "content-desc", "text", "class"}

\* Values of an attribute: absent or empty, blank, padded, upper case, with a
\* run of blanks, and resource ids with and without a suffix
AttrValues ==
    {"", " ", "save", " Save ", "SAVE", "Save  As", "saved",
     "com.app:id/", "com.app:id/save", "COM.APP:ID/SAVE"}

\* Two nodes and the attribute to compare
AttrInit ==
    /\ RepairIdle
    /\ script = <<>>
    /\ PerformIdle
    /\ MatchIdle
    /\ LayoutIdle /\ OverlapIdle /\ JsonIdle
    /\ attr_name \in AttrNames
    /\ \E va \in AttrValues, vb \in AttrValues :
          /\ node_a = (attr_name :> va)
          /\ node_b = (attr_name :> vb)
    /\ attr_ret = <<>>

\* The variables a comparison leaves alone
attr_frame ==
    UNCHANGED <<node_a, node_b, attr_name, repair_vars, script, perform_vars,
                match_vars, layout_vars, overlap_vars, json_vars>>

\* attr_equal(a, b, name) is called
AttrEqual ==
    /\ attr_ret = <<>>
    /\ attr_ret' = <<attr_equal(node_a, node_b, attr_name, attr_name)>>
    /\ attr_frame

\* attr_like(a, b, name) is called
AttrLike ==
    /\ Len(attr_ret) = 1
    /\ attr_ret' = Append(attr_ret, attr_like(node_a, node_b, attr_name, attr_name))
    /\ attr_frame

\* The two calls
AttrNext == AttrEqual \/ AttrLike

\* attr_equal and attr_like on every pair of attribute values
SpecAttr == AttrInit /\ [][AttrNext]_vars

\* C27: for every attribute name, attr_equal(a, b, name) implies
\* attr_like(a, b, name), also on resource ids with an empty suffix.
C27_EqualImpliesLike ==
    Len(attr_ret) = 2 => (attr_ret[1] => attr_ret[2])

\* ------------------------------------------------------- to_json, from_json

\* largest index of a locator
MaxIndex == 2

\* The names of Criterion
CriterionNames == {"ID", "DESC", "CLASS", "TEXT"}

\* Python values: str, int, bool and dict, a dict being its set of items
PyStr(s) == <<"str", s>>
PyInt(n) == <<"int", n>>
PyBool(b) == <<"bool", b>>
PyDict(items) == <<"dict", items>>

\* No locator
NoLocator == <<"None">>

\* Locator(criteria, index); criteria is the set of items of the mapping
Locator(criteria, index) == <<"Locator", criteria, index>>

\* EventOf(action, locator, parameter); parameter is the set of items of the dict
EventOf(action, locator, parameter) == <<"Event", action, locator, parameter>>

\* One identifier for each criterion
Identifiers ==
    {<<"ID", PyStr("com.app:id/save")>>, <<"DESC", PyStr("menu")>>,
     <<"CLASS", PyStr("android.view.View")>>, <<"TEXT", PyStr("Documents")>>}

\* The locators: any criteria, also none, and any index
Locators == { Locator(c, i) : c \in SUBSET Identifiers, i \in 0 .. MaxIndex }

\* The parameters: empty, or holding string, integer and boolean values
Parameters ==
    SUBSET {<<"text", PyStr("hello")>>, <<"count", PyInt(0)>>, <<"generated", PyBool(TRUE)>>}

\* The events
Events ==
    { EventOf(a, l, p) : a \in Actions, l \in Locators \cup {NoLocator},
                       p \in Parameters }

\* d[k] of a dict
dict_item(d, k) == (CHOOSE p \in d[2] : p[1] = k)[2]

\* k in d
dict_has(d, k) == \E p \in d[2] : p[1] = k

\* d.get(k, default)
dict_get(d, k, default) == IF dict_has(d, k) THEN dict_item(d, k) ELSE default

\* json.dumps: the JSON text as the value it denotes
RECURSIVE dumps(_)
dumps(v) ==
    CASE v[1] = "str" -> <<"string", v[2]>>
      [] v[1] = "int" -> <<"number", v[2]>>
      [] v[1] = "bool" -> IF v[2] THEN <<"true">> ELSE <<"false">>
      [] v[1] = "dict" -> <<"object", { <<p[1], dumps(p[2])>> : p \in v[2] }>>

\* json.loads
RECURSIVE loads(_)
loads(s) ==
    CASE s[1] = "string" -> PyStr(s[2])
      [] s[1] = "number" -> PyInt(s[2])
      [] s[1] = "true" -> PyBool(TRUE)
      [] s[1] = "false" -> PyBool(FALSE)
      [] s[1] = "object" -> PyDict({ <<p[1], loads(p[2])>> : p \in s[2] })

\* Locator.to_dict with the index written also when it is 0
locator_to_dict_with_index(l) ==
    PyDict({<<"criteria", PyDict(l[2])>>, <<"index", PyInt(l[3])>>})

\* Locator.to_dict
locator_to_dict(l) ==
    PyDict({<<"criteria", PyDict(l[2])>>} \cup
         (IF l[3] # 0 THEN {<<"index", PyInt(l[3])>>} ELSE {}))

\* Locator.from_dict: unknown criteria are skipped with a warning
locator_from_dict(d) ==
    LET criteria == dict_item(d, "criteria")
        index == dict_get(d, "index", PyInt(0))
    IN Locator({ p \in criteria[2] : p[1] \in CriterionNames }, index[2])

\* Event.to_dict with the parameter left out
event_to_dict_no_parameter(e) ==
    PyDict({<<"action", PyStr(e[2])>>} \cup
         (IF e[3] # NoLocator THEN {<<"locator", locator_to_dict(e[3])>>} ELSE {}))

\* Event.to_dict
event_to_dict(e) ==
    PyDict({<<"action", PyStr(e[2])>>} \cup
         (IF e[3] # NoLocator THEN {<<"locator", locator_to_dict(e[3])>>} ELSE {}) \cup
         (IF e[4] # {} THEN {<<"parameter", PyDict(e[4])>>} ELSE {}))

\* Event.from_dict
event_from_dict(d) ==
    LET action_name == dict_item(d, "action")
        locator == IF dict_has(d, "locator") /\ dict_item(d, "locator")[1] = "dict"
                   THEN locator_from_dict(dict_item(d, "locator"))
                   ELSE NoLocator
        parameter == dict_get(d, "parameter", PyDict({}))
    IN EventOf(action_name[2], locator, parameter[2])

\* JsonMixin.to_json of an event
to_json(e) == dumps(event_to_dict(e))

\* JsonMixin.from_json of an event
from_json(s) == event_from_dict(loads(s))

\* The dicts given to Locator.from_dict: recognised and unknown criteria, the
\* index absent or present, and a key the locator does not know
InputDicts ==
    { PyDict({<<"criteria", PyDict(c)>>} \cup i \cup n) :
        c \in SUBSET (Identifiers \cup {<<"NAME", PyStr("bla")>>}),
        i \in {{}} \cup { {<<"index", PyInt(k)>>} : k \in 0 .. MaxIndex },
        n \in {{}, {<<"note", PyStr("bla")>>}} }

\* An event to convert, a locator to convert, or a dict to load
JsonInit ==
    /\ RepairIdle
    /\ script = <<>>
    /\ PerformIdle
    /\ MatchIdle
    /\ LayoutIdle /\ OverlapIdle /\ AttrIdle
    /\ loaded = <<>>
    /\ again = <<>>
    /\ \/ /\ jpc = "event"
          /\ subject \in Events
          /\ json = <<>>
       \/ /\ jpc = "locator"
          /\ subject \in Locators
          /\ json = <<>>
       \/ /\ jpc = "dict"
          /\ subject = NoLocator
          /\ json \in InputDicts

\* The variables the conversions leave alone
json_frame ==
    UNCHANGED <<repair_vars, script, perform_vars, match_vars, layout_vars,
                overlap_vars, attr_vars>>

\* s = e.to_json()
EventToJson ==
    /\ jpc = "event"
    /\ json' = to_json(subject)
    /\ jpc' = "event_json"
    /\ UNCHANGED <<subject, loaded, again>>
    /\ json_frame

\* Event.from_json(s)
EventFromJson ==
    /\ jpc = "event_json"
    /\ loaded' = from_json(json)
    /\ jpc' = "event_done"
    /\ UNCHANGED <<subject, json, again>>
    /\ json_frame

\* d = l.to_dict()
LocatorToDict ==
    /\ jpc = "locator"
    /\ json' = locator_to_dict(subject)
    /\ jpc' = "dict"
    /\ UNCHANGED <<subject, loaded, again>>
    /\ json_frame

\* Locator.from_dict(d)
LocatorFromDict ==
    /\ jpc = "dict"
    /\ loaded' = locator_from_dict(json)
    /\ jpc' = "loaded"
    /\ UNCHANGED <<subject, json, again>>
    /\ json_frame

\* The loaded locator is serialised again
LocatorToDictAgain ==
    /\ jpc = "loaded"
    /\ again' = locator_to_dict(loaded)
    /\ jpc' = "done"
    /\ UNCHANGED <<subject, json, loaded>>
    /\ json_frame

\* The conversions
JsonNext ==
    \/ EventToJson
    \/ EventFromJson
    \/ LocatorToDict
    \/ LocatorFromDict
    \/ LocatorToDictAgain

\* Events and locators converted to JSON and back
SpecJson == JsonInit /\ [][JsonNext]_vars

\* C29: Event.from_json(e.to_json()) == e for every event e, the locator
\* absent or present with any index, the parameter empty or not.
C29_EventRoundTrip ==
    jpc = "event_done" => loaded = subject

\* An event with a locator of index 0 and a parameter holding a string, an
\* integer and a boolean has gone to JSON and back
C29_Witness ==
    /\ jpc = "event_done"
    /\ subject[3] # NoLocator
    /\ subject[3][3] = 0
    /\ Cardinality(subject[4]) = 3
    /\ loaded = subject

\* The recognised criteria of the dict given to from_dict
Recognised ==
    { p \in dict_item(json, "criteria")[2] : p[1] \in CriterionNames }

\* from_dict has kept exactly the recognised criteria, has taken the index of
\* the dict, 0 when it has none, and has given back a locator it was made of
Loaded ==
    /\ loaded[2] = Recognised
    /\ IF dict_has(json, "index")
       THEN PyInt(loaded[3]) = dict_item(json, "index")
       ELSE loaded[3] = 0
    /\ subject # NoLocator => loaded = subject

\* C30 as stated: from_dict keeps exactly the recognised criteria, defaults
\* the index to 0, gives back every locator from its to_dict, and serialising
\* the loaded locator again yields the input without the unknown keys.
C30_AgainIsInputWithoutUnknown ==
    jpc = "done" =>
        /\ Loaded
        /\ again = PyDict({<<"criteria", PyDict(Recognised)>>} \cup
                          { p \in json[2] : p[1] = "index" })

\* C30: from_dict keeps exactly the recognised criteria, defaults the index
\* to 0, gives back every locator from its to_dict, and serialising the
\* loaded locator again yields the input without the unknown keys and
\* without an index of 0.
C30_AgainIsInputWithoutUnknownAndZero ==
    jpc = "done" =>
        /\ Loaded
        /\ again = PyDict({<<"criteria", PyDict(Recognised)>>} \cup
                          { p \in json[2] : p[1] = "index" /\ p[2] # PyInt(0) })

\* A dict with an unknown criterion, a recognised one and an index of 0 has
\* been loaded and serialised again
C30_Witness ==
    /\ jpc = "done"
    /\ subject = NoLocator
    /\ dict_has(json, "index")
    /\ dict_item(json, "index") = PyInt(0)
    /\ \E p \in dict_item(json, "criteria")[2] : p[1] \notin CriterionNames
    /\ Recognised # {}
    /\ ~dict_has(again, "index")

\* ------------------------------------------------- claims on the repair loop

\* C37: back-step never pops from an empty result: a back-step that runs with
\* a non-empty result takes each of its pops, the second one behind a SWIPE
\* too, from a non-empty list, and the session goes on to the recovery.
C37_BackStepPopsNonEmpty ==
    last.op = "back_step" /\ last.result0 # <<>> =>
        /\ last.ret # "Raise"
        /\ pc = "recover_init"
        /\ exit_code = <<>>

\* C38: a __match_current or __match_next call that returns False has
\* appended nothing to result, has left current as it was and has left the
\* device on the screen it showed before the call.
C38_FailedMatchFrame ==
    last.op \in {"match_current", "match_next"} /\ last.ret = "False" =>
        /\ last.result1 = last.result0
        /\ last.current1 = last.current0
        /\ last.screen1 = last.screen0

\* A __match_next call has returned False after the assertion that is the
\* next step was checked on the device and did not hold
C38_Witness ==
    /\ last.op = "match_next"
    /\ last.ret = "False"
    /\ last.why = "is_assertion"
    /\ is_assertion(testcase[last.current0 + 2].event)
    /\ result = last.result0
    /\ current = last.current0
    /\ screen = last.screen0

\* The repair loop when every device call returns: the step that is enabled
\* is taken
SpecTerminates == Spec /\ WF_vars(Next)

\* A step of the session that ends an iteration of the loop by going back to
\* its head
EndsIteration == pc' = "loop" /\ pc \notin {"constructed", "loop"}

\* What a step does to current: it stays within 0 .. len(testcase), a step
\* that ends an iteration has moved it by 1 or by 2, by 2 only if
\* current + 1 < len(testcase), and no other step moves it
CurrentStep ==
    /\ 0 <= current' /\ current' <= Len(testcase')
    /\ IF EndsIteration
       THEN /\ current' - current \in {1, 2}
            /\ current' - current = 2 => current + 1 < Len(testcase)
       ELSE current' = current

\* The session has ended, through __quit or through an exception
Terminated == pc \in {"done", "crashed"}

\* C36: current stays within 0 .. len(testcase), every iteration of the loop
\* that does not end the session moves current by exactly 1 or 2 (2 only when
\* current + 1 < len(testcase)), and the session terminates when every device
\* call returns.
C36_CurrentAdvances == [][CurrentStep]_vars /\ <>Terminated

\* An iteration has ended with a __match_next that moved current by 2, up to
\* len(testcase)
C36_Witness ==
    /\ pc = "loop"
    /\ last.op = "match_next"
    /\ last.ret = "True"
    /\ current = last.current0 + 2
    /\ current = Len(testcase)

\* C35: when the repaired script is generated, every key of result_assertion
\* is a step of result: no entry outlives the removal of its step by the
\* back-step or by the rollback of an exploration.
C35_AssertionKeysInResult ==
    pc = "done" /\ written => DOMAIN result_assertion \subseteq Range(result)

\* --------------------------------------------------------- get_non_overlap

\* The parents of the nodes of the trees with list items, in document order:
\* a list of two rows with an item each, two rows below the hierarchy
\* element with an item each, one row of two items, and a list whose first
\* row holds two items
ListShapes == {<<0, 1, 2, 1, 4>>, <<0, 1, 0, 3>>, <<0, 1, 1>>, <<0, 1, 2, 2, 1, 5>>}

\* The bounds of the nodes of these trees: halves, rows and the whole screen
ListBounds ==
    {<<0, 0, 2, 2>>, <<2, 0, 4, 2>>, <<0, 0, 4, 2>>, <<0, 2, 4, 4>>}

\* The trees with list items: the leaves are the items, all of one
\* resource-id, the other nodes their containers
ListTrees ==
    UNION { { [i \in DOMAIN shape |->
                 XmlNode(shape[i],
                         IF \E j \in DOMAIN shape : shape[j] = i
                         THEN Elem("android.widget.LinearLayout", "com.app:id/row", "", "",
                                   "com.app", "false")
                         ELSE Elem("android.view.View", "com.app:id/save", "", "",
                                   "com.app", "true"),
                         b[i])] :
              b \in [DOMAIN shape -> ListBounds] } :
            shape \in ListShapes }

\* The leaves of a tree
Leaves(t) == { i \in iter(t) : elements(t, i) = {} }

\* A Layout with one group of list items, before its non_overlap is computed
ClimbInit ==
    /\ RepairIdle
    /\ script = <<>>
    /\ PerformIdle
    /\ MatchIdle
    /\ OverlapIdle /\ AttrIdle /\ JsonIdle
    /\ root \in ListTrees
    /\ fields = [NoFields EXCEPT !.children = Leaves(root), !.cp = child_parent(root)]
    /\ lpc = "climb"
    /\ LocateIdle

\* get_non_overlap(children, self.cp), the children in the order of the list
GetNonOverlap ==
    /\ lpc = "climb"
    /\ \E ord \in Orders(fields.children) :
         fields' = [fields EXCEPT !.non_overlap = get_non_overlap(root, fields.cp, ord)]
    /\ lpc' = "climbed"
    /\ UNCHANGED root
    /\ layout_frame

\* The only step
ClimbNext == GetNonOverlap

\* get_non_overlap on every tree with list items
SpecClimb == ClimbInit /\ [][ClimbNext]_vars

\* The rectangles a and b share points on both axes
Intersects(a, b) ==
    /\ min(a[3], b[3]) > max(a[1], b[1])
    /\ min(a[4], b[4]) > max(a[2], b[2])

\* C31: get_non_overlap returns, for each member of the group, the member
\* or one of its ancestors, never the hierarchy element, and one that cannot
\* be promoted: its parent is absent from cp, or overlaps the ancestor chosen
\* for another member.
C31_ChosenCannotRise ==
    lpc = "climbed" =>
        \A c \in fields.children :
            LET chosen == fields.non_overlap[c] IN
            /\ chosen # 0
            /\ within(root, c, {chosen})
            /\ \/ chosen \notin DOMAIN fields.cp
               \/ \E k \in fields.children \ {c} :
                    Intersects(bounds_of(root, fields.cp[chosen]),
                               bounds_of(root, fields.non_overlap[k]))

\* ------------------------------------------------ claims on Layout.children

\* The clickable attribute of node i
clickable(i) == get(root, i, "clickable", "None")

\* Node n covers node m: the centre of m lies inside the rectangle of n
Covers(n, m) == is_cover(bounds_of(root, n), bounds_of(root, m))

\* C32: in a Layout whose nodes are all clickable "true" or "false", no child
\* that is not clickable has its centre inside a clickable child, and no
\* child has its centre inside a clickable child that comes later in the
\* document.
C32_NoCoveredChild ==
    LayoutBuilt /\ (\A i \in iter(root) : clickable(i) \in {"true", "false"}) =>
        \A m \in fields.children, n \in fields.children :
            m # n /\ clickable(n) = "true" /\ Covers(n, m) =>
                clickable(m) = "true" /\ n < m

\* A clickable child has taken an earlier leaf that it covers out of the
\* children
C32_Witness ==
    /\ LayoutBuilt
    /\ \E m \in iter(root) \ fields.children, n \in fields.children :
         /\ is_child(root, m)
         /\ m < n
         /\ clickable(n) = "true"
         /\ Covers(n, m)

\* ------------------------------------------- Locator.from_node, find_in_layout

\* The attribute a criterion compares (Criterion.__call__)
CriterionAttr ==
    ("ID" :> "resource-id") @@ ("DESC" :> "content-desc") @@ ("CLASS" :> "class")
    @@ ("TEXT" :> "text")

\* The locator of node n by the attribute of criterion c
locator_by(t, n, c) ==
    Locator({<<c, PyStr(get(t, n, CriterionAttr[c], ""))>>},
            get(t, n, index_of(CriterionAttr[c]), 0))

\* from_node with a slip: the resource-id is preferred to text and content-desc
from_node_id_first(t, n) ==
    IF get(t, n, "resource-id", "") # "" THEN locator_by(t, n, "ID")
    ELSE IF get(t, n, "text", "") # "" THEN locator_by(t, n, "TEXT")
    ELSE IF get(t, n, "content-desc", "") # "" THEN locator_by(t, n, "DESC")
    ELSE locator_by(t, n, "CLASS")

\* Locator.from_node(node)
from_node(t, n) ==
    IF get(t, n, "text", "") # "" THEN locator_by(t, n, "TEXT")
    ELSE IF get(t, n, "content-desc", "") # "" THEN locator_by(t, n, "DESC")
    ELSE IF get(t, n, "resource-id", "") # "" THEN locator_by(t, n, "ID")
    ELSE locator_by(t, n, "CLASS")

\* Locator.find_in_layout(root): the node at position index among the nodes
\* that satisfy every criterion, in document order; None when there are too few
locator_find_in_layout(l, t) ==
    LET matched == Sorted({ n \in iter(t) :
                              \A c \in l[2] : PyStr(get(t, n, CriterionAttr[c[1]], "None")) = c[2] })
        index == l[3]
    IN IF Len(matched) = 0 \/ index >= Len(matched) THEN None
       ELSE IF index >= 0 THEN matched[index + 1]
       ELSE matched[Len(matched) + 1 + index]

\* preprocess(root)
preprocess(t) ==
    LET removed == remove_node(t) IN
    denote_bounds(denote_index_loop(removed, Sorted(iter(removed)), <<>>))

\* The parsed trees, before preprocess
LocateInit ==
    /\ RepairIdle
    /\ script = <<>>
    /\ PerformIdle
    /\ MatchIdle
    /\ OverlapIdle /\ AttrIdle /\ JsonIdle
    /\ root \in Trees
    /\ fields = NoFields
    /\ lpc = "parsed"
    /\ LocateIdle

\* What locating a node never touches
locate_frame ==
    UNCHANGED <<repair_vars, script, perform_vars, match_vars, overlap_vars, attr_vars,
                json_vars, fields, explored>>

\* preprocess(self.root) of Layout.__post_init__
Preprocess ==
    /\ lpc = "parsed"
    /\ root' = preprocess(root)
    /\ lpc' = "preprocessed"
    /\ UNCHANGED <<picked, made, located>>
    /\ locate_frame

\* Locator.from_node(n) for a node n of the layout
FromNode ==
    /\ lpc = "preprocessed"
    /\ \E n \in iter(root) :
         /\ picked' = n
         /\ made' = from_node(root, n)
    /\ lpc' = "from_node"
    /\ UNCHANGED <<root, located>>
    /\ locate_frame

\* locator.find_in_layout(root)
FindInLayout ==
    /\ lpc = "from_node"
    /\ located' = <<locator_find_in_layout(made, root)>>
    /\ lpc' = "found"
    /\ UNCHANGED <<root, picked, made>>
    /\ locate_frame

\* A node is turned into a locator and looked up again
LocateNext == Preprocess \/ FromNode \/ FindInLayout

\* The locators of the nodes of every preprocessed tree
SpecLocate == LocateInit /\ [][LocateNext]_vars

\* The criterion from_node is to choose for the picked node
Preferred ==
    IF get(root, picked, "text", "") # "" THEN "TEXT"
    ELSE IF get(root, picked, "content-desc", "") # "" THEN "DESC"
    ELSE IF get(root, picked, "resource-id", "") # "" THEN "ID"
    ELSE "CLASS"

\* The locator holds the preferred criterion with the node's value, and
\* nothing else
OneCriterion ==
    made[2] = {<<Preferred, PyStr(get(root, picked, CriterionAttr[Preferred], ""))>>}

\* C34 as stated: the locator of a node uses exactly one criterion, text
\* before content-desc before resource-id before class, and its index is the
\* node's index attribute of the chosen attribute.
C34_LocatorOfNode ==
    lpc \in {"from_node", "found"} =>
        /\ OneCriterion
        /\ index_of(CriterionAttr[Preferred]) \in DOMAIN root[picked].attrib
        /\ made[3] = root[picked].attrib[index_of(CriterionAttr[Preferred])]

\* C34: the locator of a node uses exactly one criterion, text before
\* content-desc before resource-id before class; its index is the node's
\* index attribute of the chosen attribute, and 0 for a node that carries no
\* such attribute.
C34_LocatorOfNodeOrZero ==
    lpc \in {"from_node", "found"} =>
        /\ OneCriterion
        /\ made[3] = IF index_of(CriterionAttr[Preferred]) \in DOMAIN root[picked].attrib
                     THEN root[picked].attrib[index_of(CriterionAttr[Preferred])]
                     ELSE 0

\* The locator of the second of two nodes with the same text was made, by
\* its text and with index 1
C34_Witness ==
    /\ lpc = "from_node"
    /\ get(root, picked, "text", "") # ""
    /\ made[2] = {<<"TEXT", PyStr(get(root, picked, "text", ""))>>}
    /\ made[3] = 1
    /\ get(root, picked, "text-index", 0) = 1

\* C40: for every node n of a preprocessed layout,
\* Locator.from_node(n).find_in_layout(root) returns n.
C40_LocatorFindsItsNode ==
    lpc = "found" => located = <<picked>>

\* ---------------------------------------------------------------------------
\* Claims on the finality of the pairs match_layout commits
\* ---------------------------------------------------------------------------

\* The commits made before match_possible is entered
EarlyCommits == { c \in commits : c.phase # "possible" }

\* The commits made by match_possible
PossibleCommits == { c \in commits : c.phase = "possible" }

\* The nodes of a set of commits
NodesOf(cs) == { c.old : c \in cs } \cup { c.new : c \in cs }

\* The candidates an old child of match_possible has among the new children
\* outside a set of nodes
Offered(o, taken) ==
    { n \in children(new) \ taken : predictor("is_match_loose", o, n) }

\* The commits of match_possible can be put in an order in which each one chose
\* among exactly the new children no earlier commit holds
PossibleOfferedFresh ==
    \E ord \in Orders(PossibleCommits) :
        \A i \in DOMAIN ord :
            LET taken == NodesOf(EarlyCommits) \cup { ord[j].new : j \in 1 .. i - 1 } IN
            /\ ord[i].new \in Offered(ord[i].old, taken)
            /\ ord[i].ncand = Cardinality(Offered(ord[i].old, taken))

\* A step of match_layout keeps every pair of matched, and the pairs it adds
\* hold no node an earlier step committed
KeepsPairs ==
    /\ \A o \in DOMAIN match_result.matched :
         /\ o \in DOMAIN match_result'.matched
         /\ match_result'.matched[o] = match_result.matched[o]
    /\ commits \subseteq commits'
    /\ NodesOf(commits' \ commits) \cap NodesOf(commits) = {}

\* No node lies in two commits, a commit on one candidate chose a node no other
\* commit holds, and nothing committed before match_possible is in possible
CommitsFinal ==
    /\ \A c, d \in commits : c # d => {c.old, c.new} \cap {d.old, d.new} = {}
    /\ \A c \in commits : c.old \in DOMAIN match_result.matched
                            /\ match_result.matched[c.old] = c.new
    /\ mpc \in {"not_match", "score", "done"} => PossibleOfferedFresh
    /\ NodesOf(EarlyCommits) \cap
         (DOMAIN match_result.possible \cup new_possible(match_result)) = {}

\* C39: a pair committed by any phase of match_layout is final: no later
\* commit overwrites or removes matched[old], neither node of the pair is
\* offered as a candidate to a later commit, and a node committed before the
\* possible-match phase is neither a key nor a member of possible.
C39_CommitsAreFinal == [][KeepsPairs]_vars /\ []CommitsFinal

\* match_layout has returned with a pair committed before match_possible whose
\* new node satisfies the predicate of an old child match_possible committed
C39_Witness ==
    /\ LayoutMatched
    /\ \E c \in EarlyCommits :
         \E d \in PossibleCommits : predictor("is_match_loose", d.old, c.new)

\* ------------------------------------------------- Repair.__candidates

\* The parents of the nodes of the explored screens, in document order: two
\* rows of a list, each with an item and a cell, and a leaf below the list
ExploreShape == <<0, 1, 1, 0, 4, 4, 0>>

\* The classes of the list items of the first row
ItemClasses ==
    {"android.widget.TextView", "android.widget.ImageView", "android.widget.CheckBox"}

\* The classes of the leaf below the list
LeafClasses == {"android.widget.Button", "android.widget.EditText", "android.widget.Switch"}

\* The halves of the first row
ItemBounds == {<<0, 0, 2, 2>>, <<2, 0, 4, 2>>}

\* A row of the list
Row(bounds) ==
    XmlNode(0, Elem("android.widget.LinearLayout", "com.app:id/row", "", "", "com.app",
                    "false"), bounds)

\* The explored screens: the classes, texts and bounds of the first row and
\* the class of the leaf vary
ExploreTrees ==
    { <<Row(<<0, 0, 4, 2>>),
        XmlNode(1, Elem(c[1], "com.app:id/item", "", x[1], "com.app", "false"), b[1]),
        XmlNode(1, Elem(c[2], "com.app:id/cell", "", x[2], "com.app", "false"), b[2]),
        Row(<<0, 2, 4, 4>>),
        XmlNode(4, Elem("android.widget.TextView", "com.app:id/item", "", "ok", "com.app",
                        "false"), <<0, 2, 2, 4>>),
        XmlNode(4, Elem("android.widget.ImageView", "com.app:id/cell", "menu", "", "com.app",
                        "false"), <<2, 2, 4, 4>>),
        XmlNode(0, Elem(leaf, "com.app:id/save", "", "", "com.app", "false"),
                <<0, 4, 4, 6>>)>> :
        c \in ItemClasses \X ItemClasses, x \in {"", "ok"} \X {"", "ok"},
        b \in ItemBounds \X ItemBounds, leaf \in LeafClasses }

\* len(s) on the texts and descriptions of the model
len(s) == CASE s = "" -> 0 [] s = "ok" -> 2 [] s = "menu" -> 4 [] s = "save" -> 4

\* a < b on two tuples of integers of one length
RECURSIVE tuple_lt(_, _)
tuple_lt(a, b) ==
    /\ a # <<>>
    /\ \/ Head(a) < Head(b)
       \/ Head(a) = Head(b) /\ tuple_lt(Tail(a), Tail(b))

\* A sequence without its element at position m
without(seq, m) == [i \in 1 .. Len(seq) - 1 |-> IF i < m THEN seq[i] ELSE seq[i + 1]]

\* sorted(seq, key=...): k holds the key of every element; elements of equal
\* keys keep their order
RECURSIVE py_sorted(_, _)
py_sorted(seq, k) ==
    IF seq = <<>> THEN <<>>
    ELSE LET m == CHOOSE i \in DOMAIN seq :
                    /\ \A j \in DOMAIN seq : ~tuple_lt(k[seq[j]], k[seq[i]])
                    /\ \A j \in 1 .. i - 1 : tuple_lt(k[seq[i]], k[seq[j]])
         IN <<seq[m]>> \o py_sorted(without(seq, m), k)

\* default_filter(candidates)
default_filter(cs) == cs

\* default_key(candidate)
default_key(t, c) == <<coordinates(bounds_of(t, c))[2], coordinates(bounds_of(t, c))[1]>>

\* key(e) of optimize_filter_generator
filter_key(t, e) ==
    <<IF get(t, e, "class", "") = "android.widget.TextView" THEN 0 ELSE 1,
      coordinates(bounds_of(t, e))[2],
      coordinates(bounds_of(t, e))[1],
      len(get(t, e, "text", "")),
      len(get(t, e, "content-desc", ""))>>

\* The first of the siblings, whatever their keys
pick_first(t, siblings) == siblings[1]

\* siblings[0] for one sibling, else sorted(siblings, key=key)[0]
pick(t, siblings) ==
    IF Len(siblings) = 1 THEN siblings[1]
    ELSE py_sorted(siblings, [c \in Range(siblings) |-> filter_key(t, c)])[1]

\* The keys of temp in the order they were first used
RECURSIVE temp_keys(_, _)
temp_keys(seq, no) ==
    IF seq = <<>> THEN <<>>
    ELSE LET rest == temp_keys(Tail(seq), no) IN
         <<no[Head(seq)]>> \o SelectSeq(rest, LAMBDA q : q # no[Head(seq)])

\* func(candidates) of optimize_filter_generator(non_overlap); cs is the set
\* of children in the order it is iterated in
optimize_filter(t, no, cs) ==
    LET candidates_left ==
            SelectSeq(cs, LAMBDA x : get(t, x, "class", "") \notin
                                       {"android.widget.CheckBox", "android.widget.EditText",
                                        "android.widget.Switch"})
        kept == SelectSeq(candidates_left, LAMBDA c : c \notin DOMAIN no)
        items == SelectSeq(candidates_left, LAMBDA c : c \in DOMAIN no)
        keys == temp_keys(items, no)
    IN kept \o [i \in DOMAIN keys |->
                  pick(t, SelectSeq(items, LAMBDA c : no[c] = keys[i]))]

\* Counter([c.get(attr, "") for c in candidates])[value]
counter(t, cs, attr, value) ==
    Cardinality({ i \in DOMAIN cs : get(t, cs[i], attr, "") = value })

\* func(candidate) of optimize_key_generator(candidates)
optimize_key(t, cs, c) ==
    LET resource_id == get(t, c, "resource-id", "")
        text == get(t, c, "text", "")
        content_desc == get(t, c, "content-desc", "")
        coord == coordinates(bounds_of(t, c))
    IN <<IF resource_id # "" /\ counter(t, cs, "resource-id", resource_id) = 1 THEN 0 ELSE 1,
         IF text # "" /\ counter(t, cs, "text", text) = 1 THEN 0 ELSE 1,
         IF content_desc # "" /\ counter(t, cs, "content-desc", content_desc) = 1
         THEN 0 ELSE 1,
         IF resource_id = "" THEN 0 ELSE 1,
         IF text = "" THEN 0 ELSE 1,
         IF content_desc = "" THEN 0 ELSE 1,
         counter(t, cs, "resource-id", resource_id),
         counter(t, cs, "text", text),
         counter(t, cs, "content-desc", content_desc),
         coord[2],
         coord[1]>>

\* Repair.__candidates on the captured layout: the children filtered, sorted
\* and turned into events; node is the child an event was made from
repair_candidates(t, f, optimized, cs) ==
    LET filtered == IF optimized THEN optimize_filter(t, f.non_overlap, cs)
                    ELSE default_filter(cs)
        k == [c \in Range(filtered) |->
                IF optimized THEN optimize_key(t, filtered, c) ELSE default_key(t, c)]
        sorted == py_sorted(filtered, k)
    IN [i \in DOMAIN sorted |->
          [node |-> sorted[i],
           event |-> EventOf("CLICK", from_node(t, sorted[i]), {})]]

\* The dump of an explored screen, in either mode of exploration
ExploreInit ==
    /\ input = Consumed
    /\ optimize_explore \in BOOLEAN
    /\ pretest = FALSE
    /\ pc = "idle"
    /\ attrs_set = FALSE
    /\ testcase = <<>>
    /\ generated_assertion = <<>>
    /\ result = <<>>
    /\ result_assertion = <<>>
    /\ current = 0
    /\ screen = StartScreen
    /\ stepped_back = FALSE
    /\ cands = <<>>
    /\ original = <<>>
    /\ rec_i = 1
    /\ rec_from = "none"
    /\ exit_code = <<>>
    /\ written = FALSE
    /\ strategies = <<>>
    /\ last = NoCall
    /\ xlast = NoExplore
    /\ recover_log = <<>>
    /\ rec_entry = <<>>
    /\ script = <<>>
    /\ PerformIdle
    /\ MatchIdle
    /\ OverlapIdle /\ AttrIdle /\ JsonIdle
    /\ root \in ExploreTrees
    /\ fields = NoFields
    /\ lpc = "remove"
    /\ LocateIdle

\* Repair.__candidates(): the children of the captured layout are filtered in
\* the order the set is iterated in, sorted and turned into CLICK events
CandidatesOfLayout ==
    /\ lpc = "done"
    /\ \E cs \in Orders(fields.children) :
         explored' = repair_candidates(root, fields, optimize_explore, cs)
    /\ lpc' = "candidates"
    /\ UNCHANGED <<root, fields, picked, made, located>>
    /\ UNCHANGED <<repair_vars, script, perform_vars, match_vars, overlap_vars, attr_vars,
                   json_vars>>

\* current_layout = self.__capture() builds the Layout; then the candidates
ExploreNext == LayoutBuild \/ CandidatesOfLayout

\* The exploration candidates of every explored screen
SpecExplore == ExploreInit /\ [][ExploreNext]_vars

\* The children the events of explored were made from
Chosen == { explored[i].node : i \in DOMAIN explored }

\* The children of a class the optimized filter lets through
Remaining ==
    { c \in fields.children :
        get(root, c, "class", "") \notin
            {"android.widget.CheckBox", "android.widget.EditText", "android.widget.Switch"} }

\* The list items among them
RemainingItems == Remaining \cap DOMAIN fields.non_overlap

\* The key the claim orders the list items by
ItemKey(c) ==
    <<IF get(root, c, "class", "") = "android.widget.TextView" THEN 0 ELSE 1,
      get(root, c, "bounds", Malformed)[2],
      get(root, c, "bounds", Malformed)[1],
      len(get(root, c, "text", "")),
      len(get(root, c, "content-desc", ""))>>

\* C33: in optimized mode the exploration candidates contain no child of class
\* CheckBox, EditText or Switch, contain every remaining child that is not a
\* list-item, and contain exactly one child per non-overlap ancestor among the
\* remaining list-items, a minimum under the key (class=TextView?0:1, y0, x0,
\* len(text), len(content-desc)); every candidate is a CLICK event and no child
\* yields more than one candidate.
C33_OptimizedCandidates ==
    lpc = "candidates" /\ optimize_explore =>
        /\ Chosen \subseteq Remaining
        /\ Remaining \ RemainingItems \subseteq Chosen
        /\ \A p \in { fields.non_overlap[c] : c \in RemainingItems } :
             LET siblings == { c \in RemainingItems : fields.non_overlap[c] = p } IN
             /\ Cardinality(Chosen \cap siblings) = 1
             /\ \A c \in Chosen \cap siblings :
                  \A d \in siblings : ~tuple_lt(ItemKey(d), ItemKey(c))
        /\ \A i \in DOMAIN explored : explored[i].event[2] = "CLICK"
        /\ \A i, j \in DOMAIN explored : explored[i].node = explored[j].node => i = j

\* Optimized candidates of a screen whose first row holds a check box and one
\* more item, which is kept, and whose second row gives its TextView
C33_Witness ==
    /\ lpc = "candidates"
    /\ optimize_explore
    /\ get(root, 2, "class", "") = "android.widget.CheckBox"
    /\ fields.non_overlap[2] = 1 /\ fields.non_overlap[3] = 1
    /\ 3 \in Chosen /\ 5 \in Chosen /\ 6 \notin Chosen
    /\ 7 \in Chosen
    /\ Len(explored) = 3


====
